---- MODULE Spec2Model ----
(***************************************************************************)
(* A model of the two charms of canonical/postfix-relay-operators:         *)
(*   relay        = postfix-relay-operator                                 *)
(*   configurator = postfix-relay-configurator-operator                    *)
(* Text is modelled as a sequence of strings.  Map files are sequences of  *)
(* tokens in which " " and "\n" are tokens of their own; the alias file is *)
(* a sequence of single characters.                                        *)
(***************************************************************************)
EXTENDS Naturals, Sequences, FiniteSets, TLC

VARIABLES
    call,           \* the last call of a function under study, with its arguments
    ret,            \* what that call returned (clauses, maps) or left on disk (file)
    charm,          \* the operator the unit runs: "relay" or "configurator"
    files,          \* the file system of the unit: path -> file
    ports,          \* the ports the unit has opened
    running,        \* the systemd services that are running
    unit_status,    \* self.unit.status
    last,           \* what the last event handler did
    events          \* the number of events handled so far

fn_vars == <<call, ret>>
unit_vars == <<charm, files, ports, running, unit_status, last, events>>
vars == <<call, ret, charm, files, ports, running, unit_status, last, events>>

(***************************************************************************)
(* Bounds of the model.                                                    *)
(***************************************************************************)
MaxEntries == 2         \* longest list / mapping drawn as an input
MaxEvents == 2          \* most events a unit handles in one behaviour

(***************************************************************************)
(* Text helpers.                                                           *)
(***************************************************************************)
RECURSIVE Concat(_)
\* "".join(parts)
Concat(parts) ==
    IF parts = <<>> THEN <<>> ELSE Head(parts) \o Concat(Tail(parts))

RECURSIVE Join(_, _)
\* sep.join(parts), sep and every part being a text
Join(sep, parts) ==
    IF parts = <<>> THEN <<>>
    ELSE IF Len(parts) = 1 THEN parts[1]
    ELSE parts[1] \o sep \o Join(sep, Tail(parts))

StartsWith(text, prefix) ==
    /\ Len(text) >= Len(prefix)
    /\ SubSeq(text, 1, Len(prefix)) = prefix

Range(s) == { s[i] : i \in DOMAIN s }

\* all sequences over S of length at most n
SeqsUpTo(S, n) == UNION { [1..k -> S] : k \in 0..n }

\* an insertion-ordered dict: a sequence of <<key, value>> with distinct keys
IsDict(m) == \A i, j \in DOMAIN m : i # j => m[i][1] # m[j][1]
Dicts(K, V) == { m \in SeqsUpTo(K \X V, MaxEntries) : IsDict(m) }

(***************************************************************************)
(* utils.py                                                                *)
(***************************************************************************)
JUJU_HEADER ==
    << "#", " ", "This", " ", "file", " ", "is", " ", "Juju", " ", "managed",
       " ", "-", " ", "do", " ", "not", " ", "edit", " ", "by", " ", "hand",
       " ", "#", "\n", "\n" >>

DEFAULT_PERMS == 420            \* 0o644
NoGroup == "None"               \* group=None
ProcessOwner == "root"          \* pwd.getpwuid(os.getuid()).pw_name
PrimaryGroup == "root"          \* grp.getgrgid(pwd.getpwnam(owner).pw_gid).gr_name

DOVECOT_USERS_PERMS == 416      \* 0o640

NoFile == [exists |-> FALSE, content |-> <<>>, mode |-> 0, owner |-> "", group |-> ""]

\* path.write_text; path.chmod; shutil.chown
WriteThrough(content, perms, group) ==
    [exists |-> TRUE,
     content |-> content,
     mode |-> perms,
     owner |-> ProcessOwner,
     group |-> IF group = NoGroup THEN PrimaryGroup ELSE group]

\* mutant: the content on disk is not compared with the content to write
Mutant_write_file_always_writes(file, content, perms, group) ==
    WriteThrough(content, perms, group)

\* postfix-relay-configurator-operator/src/utils.py write_file: the file
\* that a call leaves at the destination path, given the file found there
configurator_write_file(file, content, perms, group) ==
    IF file.exists /\ file.content = content
    THEN file
    ELSE WriteThrough(content, perms, group)

\* postfix-relay-operator/src/utils.py write_file
relay_write_file(file, content, perms, group) ==
    WriteThrough(content, perms, group)

write_file(variant, file, content, perms, group) ==
    IF variant = "relay"
    THEN relay_write_file(file, content, perms, group)
    ELSE configurator_write_file(file, content, perms, group)

Variants == {"relay", "configurator"}

(***************************************************************************)
(* state.py: the enumerations.                                             *)
(***************************************************************************)
\* the members of AccessMapValue, by name
AccessMapValue == {"OK", "REJECT", "RESTRICTED"}

\* AccessMapValue.<member>.value
AccessMapValue_value(member) ==
    CASE member = "OK" -> "OK"
      [] member = "REJECT" -> "REJECT"
      [] member = "RESTRICTED" -> "restricted"

\* the members of PostfixLookupTableType, by name
PostfixLookupTableType == {"HASH", "REGEXP", "CIDR"}

\* PostfixLookupTableType.<member>.value
PostfixLookupTableType_value(member) ==
    CASE member = "HASH" -> "hash"
      [] member = "REGEXP" -> "regexp"
      [] member = "CIDR" -> "cidr"

\* PostfixLookupTableType(value): the member with that value
PostfixLookupTableType_of(value) ==
    CHOOSE member \in PostfixLookupTableType :
        PostfixLookupTableType_value(member) = value

(***************************************************************************)
(* The State object handed to the builders: the attributes they read.      *)
(* Lists are sequences, mappings are insertion-ordered dicts.              *)
(***************************************************************************)
EmptyState ==
    [ enable_smtp_auth |-> FALSE,
      enable_spf |-> FALSE,
      enable_reject_unknown_sender_domain |-> FALSE,
      append_x_envelope_to |-> FALSE,
      admin_email |-> <<"None">>,
      smtp_auth_users |-> <<>>,
      additional_smtpd_recipient_restrictions |-> <<>>,
      header_checks |-> <<>>,
      smtp_header_checks |-> <<>>,
      relay_access_sources |-> <<>>,
      restrict_sender_access |-> <<>>,
      relay_recipient_maps |-> <<>>,
      restrict_recipients |-> <<>>,
      restrict_senders |-> <<>>,
      sender_login_maps |-> <<>>,
      tls_policy_maps |-> <<>>,
      transport_maps |-> <<>>,
      virtual_alias_maps |-> <<>>,
      virtual_alias_maps_type |-> "HASH",
      spf_skip_addresses |-> <<>> ]

(***************************************************************************)
(* postfix.py: the restriction-list builders.  A list of clauses is a      *)
(* sequence of strings.                                                    *)
(***************************************************************************)
\* mutant: the login-mismatch rejections are not nested under enable_smtp_auth
Mutant_relay_restrictions_unnested(charm_state) ==
    LET r0 == <<"permit_mynetworks">>
        r1 == IF charm_state.relay_access_sources # <<>>
              THEN Append(r0, "check_client_access cidr:/etc/postfix/relay_access")
              ELSE r0
        a1 == IF charm_state.sender_login_maps # <<>>
              THEN Append(r1, "reject_known_sender_login_mismatch")
              ELSE r1
        a2 == IF charm_state.restrict_senders # <<>>
              THEN Append(a1, "reject_sender_login_mismatch")
              ELSE a1
        r2 == IF charm_state.enable_smtp_auth
              THEN Append(a2, "permit_sasl_authenticated")
              ELSE a2
    IN  Append(r2, "defer_unauth_destination")

\* postfix-relay-operator/src/postfix.py _smtpd_relay_restrictions
relay_smtpd_relay_restrictions(charm_state) ==
    LET r0 == <<"permit_mynetworks">>
        r1 == IF charm_state.relay_access_sources # <<>>
              THEN Append(r0, "check_client_access cidr:/etc/postfix/relay_access")
              ELSE r0
        r2 == IF charm_state.enable_smtp_auth
              THEN LET a1 == IF charm_state.sender_login_maps # <<>>
                             THEN Append(r1, "reject_known_sender_login_mismatch")
                             ELSE r1
                       a2 == IF charm_state.restrict_senders # <<>>
                             THEN Append(a1, "reject_sender_login_mismatch")
                             ELSE a1
                   IN  Append(a2, "permit_sasl_authenticated")
              ELSE r1
    IN  Append(r2, "defer_unauth_destination")

\* mutant: the list does not start with permit_mynetworks
Mutant_relay_restrictions_no_mynetworks(charm_state) ==
    LET r0 == <<>>
        r1 == IF charm_state.relay_access_sources # <<>>
              THEN Append(r0, "check_client_access cidr:/etc/postfix/relay_access")
              ELSE r0
        r2 == IF charm_state.enable_smtp_auth
              THEN LET a1 == IF charm_state.sender_login_maps # <<>>
                             THEN Append(r1, "reject_known_sender_login_mismatch")
                             ELSE r1
                       a2 == IF charm_state.restrict_senders # <<>>
                             THEN Append(a1, "reject_sender_login_mismatch")
                             ELSE a1
                   IN  Append(a2, "permit_sasl_authenticated")
              ELSE r1
    IN  Append(r2, "defer_unauth_destination")

\* postfix-relay-configurator-operator/src/postfix.py smtpd_relay_restrictions
configurator_smtpd_relay_restrictions(charm_state) ==
    LET r0 == <<"permit_mynetworks">>
        r1 == IF charm_state.relay_access_sources # <<>>
              THEN Append(r0, "check_client_access cidr:/etc/postfix/relay_access")
              ELSE r0
        r2 == IF charm_state.enable_smtp_auth
              THEN LET a1 == IF charm_state.sender_login_maps # <<>>
                             THEN Append(r1, "reject_known_sender_login_mismatch")
                             ELSE r1
                       a2 == IF charm_state.restrict_senders # <<>>
                             THEN Append(a1, "reject_sender_login_mismatch")
                             ELSE a1
                   IN  Append(a2, "permit_sasl_authenticated")
              ELSE r1
    IN  Append(r2, "defer_unauth_destination")

\* postfix-relay-operator/src/postfix.py _smtpd_sender_restrictions
relay_smtpd_sender_restrictions(charm_state) ==
    LET s0 == <<>>
        s1 == IF charm_state.enable_reject_unknown_sender_domain
              THEN Append(s0, "reject_unknown_sender_domain")
              ELSE s0
        s2 == Append(s1, "check_sender_access hash:/etc/postfix/access")
    IN  IF charm_state.restrict_sender_access # <<>>
        THEN Append(s2, "reject")
        ELSE s2

\* mutant: the final reject is emitted whenever the list field is present
Mutant_sender_restrictions_always_reject(charm_state) ==
    LET s0 == <<>>
        s1 == IF charm_state.enable_reject_unknown_sender_domain
              THEN Append(s0, "reject_unknown_sender_domain")
              ELSE s0
        s2 == Append(s1, "check_sender_access hash:/etc/postfix/access")
    IN  Append(s2, "reject")

\* postfix-relay-configurator-operator/src/postfix.py smtpd_sender_restrictions
configurator_smtpd_sender_restrictions(charm_state) ==
    LET s0 == <<>>
        s1 == IF charm_state.enable_reject_unknown_sender_domain
              THEN Append(s0, "reject_unknown_sender_domain")
              ELSE s0
        s2 == Append(s1, "check_sender_access hash:/etc/postfix/access")
    IN  IF charm_state.restrict_sender_access # <<>>
        THEN Append(s2, "reject")
        ELSE s2

\* mutant: the SPF policy service is appended before the additional restrictions
Mutant_recipient_restrictions_spf_first(charm_state) ==
    LET q0 == <<>>
        q1 == IF charm_state.append_x_envelope_to
              THEN Append(q0, "check_recipient_access regexp:/etc/postfix/append_envelope_to_header")
              ELSE q0
        q2 == IF charm_state.restrict_senders # <<>>
              THEN Append(q1, "check_sender_access hash:/etc/postfix/restricted_senders")
              ELSE q1
        q3 == IF charm_state.enable_spf
              THEN Append(q2, "check_policy_service unix:private/policyd-spf")
              ELSE q2
    IN  q3 \o charm_state.additional_smtpd_recipient_restrictions

\* postfix-relay-operator/src/postfix.py _smtpd_recipient_restrictions
relay_smtpd_recipient_restrictions(charm_state) ==
    LET q0 == <<>>
        q1 == IF charm_state.append_x_envelope_to
              THEN Append(q0, "check_recipient_access regexp:/etc/postfix/append_envelope_to_header")
              ELSE q0
        q2 == IF charm_state.restrict_senders # <<>>
              THEN Append(q1, "check_sender_access hash:/etc/postfix/restricted_senders")
              ELSE q1
        q3 == q2 \o charm_state.additional_smtpd_recipient_restrictions
    IN  IF charm_state.enable_spf
        THEN Append(q3, "check_policy_service unix:private/policyd-spf")
        ELSE q3

\* postfix-relay-configurator-operator/src/postfix.py smtpd_recipient_restrictions
configurator_smtpd_recipient_restrictions(charm_state) ==
    LET q0 == <<>>
        q1 == IF charm_state.append_x_envelope_to
              THEN Append(q0, "check_recipient_access regexp:/etc/postfix/append_envelope_to_header")
              ELSE q0
        q2 == IF charm_state.restrict_senders # <<>>
              THEN Append(q1, "check_sender_access hash:/etc/postfix/restricted_senders")
              ELSE q1
        q3 == q2 \o charm_state.additional_smtpd_recipient_restrictions
    IN  IF charm_state.enable_spf
        THEN Append(q3, "check_policy_service unix:private/policyd-spf")
        ELSE q3

smtpd_relay_restrictions(variant, charm_state) ==
    IF variant = "relay"
    THEN relay_smtpd_relay_restrictions(charm_state)
    ELSE configurator_smtpd_relay_restrictions(charm_state)

smtpd_sender_restrictions(variant, charm_state) ==
    IF variant = "relay"
    THEN relay_smtpd_sender_restrictions(charm_state)
    ELSE configurator_smtpd_sender_restrictions(charm_state)

smtpd_recipient_restrictions(variant, charm_state) ==
    IF variant = "relay"
    THEN relay_smtpd_recipient_restrictions(charm_state)
    ELSE configurator_smtpd_recipient_restrictions(charm_state)

(***************************************************************************)
(* postfix.py: the lookup-table (map) builder.  The dict it returns is a   *)
(* sequence of PostfixMap records in insertion order, each carrying its    *)
(* dict key as `name`.  A path is <<directory, file name>>.                *)
(***************************************************************************)
POSTFIX_CONF_DIRPATH == "/etc/postfix"
SENDER_ACCESS_WIDTH == 35

\* len(s), for the strings the model draws as list entries
StrLen(s) ==
    CASE s = "unwanted.com" -> 12
      [] s = "a.io" -> 4

\* f"{s:35}": s left-justified in a field of SENDER_ACCESS_WIDTH characters
LJust(s) ==
    <<s>> \o [i \in 1..(IF StrLen(s) < SENDER_ACCESS_WIDTH
                         THEN SENDER_ACCESS_WIDTH - StrLen(s) ELSE 0) |-> " "]

\* [f"{key} {value}" for key, value in m.items()]
KeyValueLines(m) == [i \in DOMAIN m |-> <<m[i][1], " ", m[i][2]>>]

\* mutant: the enumeration member is formatted, not its .value
Mutant_AccessLines_member(m) ==
    [i \in DOMAIN m |-> <<m[i][1], " ", m[i][2]>>]

\* [f"{key} {value.value}" for key, value in m.items()]
AccessLines(m) ==
    [i \in DOMAIN m |-> <<m[i][1], " ", AccessMapValue_value(m[i][2])>>]

\* a list of strings as a list of one-token texts
AsTexts(list) == [i \in DOMAIN list |-> <<list[i]>>]

\* mutant: the file name is not appended to the configuration directory
Mutant_create_map_no_name(type_, dir, name, content) ==
    [type |-> IF type_ \in PostfixLookupTableType
              THEN type_ ELSE PostfixLookupTableType_of(type_),
     path |-> <<dir, "">>,
     content |-> JUJU_HEADER \o <<"\n">> \o content \o <<"\n">>]

\* build_postfix_maps._create_map (both variants): the type is passed as a
\* member or as a member's value
_create_map(type_, dir, name, content) ==
    [type |-> IF type_ \in PostfixLookupTableType
              THEN type_ ELSE PostfixLookupTableType_of(type_),
     path |-> <<dir, name>>,
     content |-> JUJU_HEADER \o <<"\n">> \o content \o <<"\n">>]

Named(key, map) == [name |-> key, type |-> map.type, path |-> map.path, content |-> map.content]

\* postfix-relay-configurator-operator/src/postfix.py build_postfix_maps
configurator_build_postfix_maps(postfix_conf_dir, charm_state) ==
    << Named("append_envelope_to_header",
             _create_map("REGEXP", postfix_conf_dir, "append_envelope_to_header",
                         <<"/^(.*)$/", " ", "PREPEND", " ", "X-Envelope-To:", " ", "$1">>)),
       Named("header_checks",
             _create_map("REGEXP", postfix_conf_dir, "header_checks",
                         Join(<<";">>, AsTexts(charm_state.header_checks)))),
       Named("relay_access_sources",
             _create_map("CIDR", postfix_conf_dir, "relay_access",
                         Join(<<"\n">>, AsTexts(charm_state.relay_access_sources)))),
       Named("relay_recipient_maps",
             _create_map("HASH", postfix_conf_dir, "relay_recipient",
                         Join(<<"\n">>, KeyValueLines(charm_state.relay_recipient_maps)))),
       Named("restrict_recipients",
             _create_map("HASH", postfix_conf_dir, "restricted_recipients",
                         Join(<<"\n">>, AccessLines(charm_state.restrict_recipients)))),
       Named("restrict_senders",
             _create_map("HASH", postfix_conf_dir, "restricted_senders",
                         Join(<<"\n">>, AccessLines(charm_state.restrict_senders)))),
       Named("sender_access",
             _create_map("HASH", postfix_conf_dir, "access",
                         Concat([i \in DOMAIN charm_state.restrict_sender_access |->
                                    LJust(charm_state.restrict_sender_access[i])
                                        \o <<" ", "OK", "\n">>]))),
       Named("sender_login_maps",
             _create_map("HASH", postfix_conf_dir, "sender_login",
                         Join(<<"\n">>, KeyValueLines(charm_state.sender_login_maps)))),
       Named("smtp_header_checks",
             _create_map("REGEXP", postfix_conf_dir, "smtp_header_checks",
                         Join(<<";">>, AsTexts(charm_state.smtp_header_checks)))),
       Named("tls_policy_maps",
             _create_map("HASH", postfix_conf_dir, "tls_policy",
                         Join(<<"\n">>, KeyValueLines(charm_state.tls_policy_maps)))),
       Named("transport_maps",
             _create_map("HASH", postfix_conf_dir, "transport",
                         Join(<<"\n">>, KeyValueLines(charm_state.transport_maps)))),
       Named("virtual_alias_maps",
             _create_map(PostfixLookupTableType_value(charm_state.virtual_alias_maps_type),
                         postfix_conf_dir, "virtual_alias",
                         Join(<<"\n">>, KeyValueLines(charm_state.virtual_alias_maps)))) >>

\* postfix-relay-operator/src/postfix.py build_postfix_maps
relay_build_postfix_maps(charm_state) ==
    << Named("header_checks",
             _create_map("REGEXP", POSTFIX_CONF_DIRPATH, "header_checks",
                         Join(<<";">>, AsTexts(charm_state.header_checks)))),
       Named("smtp_header_checks",
             _create_map("REGEXP", POSTFIX_CONF_DIRPATH, "smtp_header_checks",
                         Join(<<";">>, AsTexts(charm_state.smtp_header_checks)))),
       Named("tls_policy_maps",
             _create_map("HASH", POSTFIX_CONF_DIRPATH, "tls_policy",
                         Join(<<"\n">>, KeyValueLines(charm_state.tls_policy_maps)))) >>

\* the call each charm makes: charm.py _configure_relay
build_postfix_maps(variant, charm_state) ==
    IF variant = "relay"
    THEN relay_build_postfix_maps(charm_state)
    ELSE configurator_build_postfix_maps(POSTFIX_CONF_DIRPATH, charm_state)

(***************************************************************************)
(* postfix-relay-operator/src/postfix.py: the read-back of the lookup      *)
(* files.  A text is split at separator tokens as str.split does: n        *)
(* separators give n + 1 pieces, the empty text gives one empty piece.     *)
(***************************************************************************)
RECURSIVE IndexOf(_, _, _)
\* the index of the first token sep of text at or after i, 0 when there is none
IndexOf(text, sep, i) ==
    IF i > Len(text) THEN 0
    ELSE IF text[i] = sep THEN i
    ELSE IndexOf(text, sep, i + 1)

RECURSIVE Split(_, _)
\* text.split(sep)
Split(text, sep) ==
    LET n == IndexOf(text, sep, 1)
    IN  IF n = 0 THEN <<text>>
        ELSE <<SubSeq(text, 1, n - 1)>> \o Split(SubSeq(text, n + 1, Len(text)), sep)

\* a piece of a line as a string: "" or the one word between two blanks
AsStr(piece) == IF piece = <<>> THEN "" ELSE piece[1]

RECURSIVE DictOf(_, _)
\* {key: value for ...}: a later entry replaces the value of an equal key
DictOf(pairs, acc) ==
    IF pairs = <<>> THEN acc
    ELSE LET pair == Head(pairs)
             at == { i \in DOMAIN acc : acc[i][1] = pair[1] }
         IN  DictOf(Tail(pairs),
                    IF at = {} THEN Append(acc, pair)
                    ELSE [i \in DOMAIN acc |-> IF i \in at THEN pair ELSE acc[i]])

\* postfix.py _parse_map: line.split(" ")[1] of a line without a blank
\* raises IndexError
relay__parse_map(raw_content) ==
    LET lines == Split(raw_content, "\n")
        pieces == [i \in DOMAIN lines |-> Split(lines[i], " ")]
    IN  IF \E i \in DOMAIN pieces : Len(pieces[i]) < 2
        THEN [raised |-> "IndexError", value |-> <<>>]
        ELSE [raised |-> "",
              value |-> DictOf([i \in DOMAIN pieces |->
                                   <<AsStr(pieces[i][1]), AsStr(pieces[i][2])>>], <<>>)]

\* postfix.py _parse_access_map: AccessMapValue(value) of every value of
\* what _parse_map returned; ValueError when a value is no member's value
relay__parse_access_map(raw_content) ==
    LET parsed == relay__parse_map(raw_content)
    IN  IF parsed.raised # "" THEN parsed
        ELSE IF \E i \in DOMAIN parsed.value :
                    \A member \in AccessMapValue :
                        AccessMapValue_value(member) # parsed.value[i][2]
        THEN [raised |-> "ValueError", value |-> <<>>]
        ELSE [raised |-> "",
              value |-> [i \in DOMAIN parsed.value |->
                            <<parsed.value[i][1],
                              CHOOSE member \in AccessMapValue :
                                  AccessMapValue_value(member) = parsed.value[i][2]>>]]

\* postfix.py fetch_<name>: the name, and the file under POSTFIX_CONF_DIRPATH
\* the function reads
FETCH_FILES ==
    << <<"relay_access_sources", "relay_access">>,
       <<"relay_recipient_maps", "relay_recipient">>,
       <<"restrict_recipients", "restricted_recipients">>,
       <<"restrict_senders", "restricted_senders">>,
       <<"sender_access", "access">>,
       <<"sender_login_maps", "sender_login">>,
       <<"transport_maps", "transport_maps">>,
       <<"virtual_alias_maps", "virtual_alias_maps">> >>

\* the path fetch_<name> reads
fetch_path(name) ==
    LET entry == CHOOSE e \in Range(FETCH_FILES) : e[1] = name
    IN  <<POSTFIX_CONF_DIRPATH, entry[2]>>

(***************************************************************************)
(* charm.py: the alias-file merger.  The alias file and the admin email    *)
(* are sequences of single characters; None is the one-element sequence    *)
(* NoneValue, which no text of characters equals.                          *)
(***************************************************************************)
NoneValue == <<"None">>
Truthy(text) == text # NoneValue /\ text # <<>>

Spaces(n) == [i \in 1..n |-> " "]

\* "devnull:" and "root:"
DEVNULL_PREFIX == <<"d", "e", "v", "n", "u", "l", "l", ":">>
ROOT_PREFIX == <<"r", "o", "o", "t", ":">>
\* "/dev/null"
DEV_NULL == <<"/", "d", "e", "v", "/", "n", "u", "l", "l">>
\* "devnull:       /dev/null\n"
DEVNULL_LINE == DEVNULL_PREFIX \o Spaces(7) \o DEV_NULL \o <<"\n">>
\* mutant: the root line with one blank after the colon
Mutant_RootLine_one_blank(admin_email) ==
    ROOT_PREFIX \o Spaces(1) \o admin_email \o <<"\n">>

\* f"root:          {admin_email}\n"
RootLine(admin_email) == ROOT_PREFIX \o Spaces(10) \o admin_email \o <<"\n">>

RECURSIVE FirstNewline(_, _)
\* the index of the first "\n" of text at or after i, 0 when there is none
FirstNewline(text, i) ==
    IF i > Len(text) THEN 0
    ELSE IF text[i] = "\n" THEN i
    ELSE FirstNewline(text, i + 1)

RECURSIVE readlines(_)
\* f.readlines(): the lines of the text, each with its line break
readlines(text) ==
    IF text = <<>> THEN <<>>
    ELSE LET n == FirstNewline(text, 1)
         IN  IF n = 0 THEN <<text>>
             ELSE <<SubSeq(text, 1, n)>> \o readlines(SubSeq(text, n + 1, Len(text)))

RECURSIVE Mutant_AliasLoop_keeps_root(_, _, _)
\* mutant: the loop copies every line, the root lines too
Mutant_AliasLoop_keeps_root(aliases, add_devnull, new_aliases) ==
    IF aliases = <<>>
    THEN [add_devnull |-> add_devnull, new_aliases |-> new_aliases]
    ELSE LET line == Head(aliases)
         IN  Mutant_AliasLoop_keeps_root(Tail(aliases),
                       IF add_devnull /\ StartsWith(line, DEVNULL_PREFIX)
                       THEN FALSE ELSE add_devnull,
                       Append(new_aliases, line))

RECURSIVE AliasLoop(_, _, _)
\* the for loop of update_aliases over the lines not yet visited
AliasLoop(aliases, add_devnull, new_aliases) ==
    IF aliases = <<>>
    THEN [add_devnull |-> add_devnull, new_aliases |-> new_aliases]
    ELSE LET line == Head(aliases)
         IN  AliasLoop(Tail(aliases),
                       IF add_devnull /\ StartsWith(line, DEVNULL_PREFIX)
                       THEN FALSE ELSE add_devnull,
                       IF ~StartsWith(line, ROOT_PREFIX)
                       THEN Append(new_aliases, line) ELSE new_aliases)

\* mutant: the devnull line is appended without looking for an existing one
Mutant_MergedAliases_always_devnull(file, admin_email) ==
    LET aliases == IF file.exists THEN readlines(file.content) ELSE <<>>
        loop == AliasLoop(aliases, TRUE, <<>>)
        n1 == Append(loop.new_aliases, DEVNULL_LINE)
        n2 == IF Truthy(admin_email) THEN Append(n1, RootLine(admin_email)) ELSE n1
    IN  Concat(n2)

\* mutant: the root line is appended before the devnull line
Mutant_MergedAliases_root_first(file, admin_email) ==
    LET aliases == IF file.exists THEN readlines(file.content) ELSE <<>>
        loop == AliasLoop(aliases, TRUE, <<>>)
        n1 == IF Truthy(admin_email)
              THEN Append(loop.new_aliases, RootLine(admin_email)) ELSE loop.new_aliases
        n2 == IF loop.add_devnull THEN Append(n1, DEVNULL_LINE) ELSE n1
    IN  Concat(n2)

\* update_aliases up to its write: "".join(new_aliases)
MergedAliases(file, admin_email) ==
    LET aliases == IF file.exists THEN readlines(file.content) ELSE <<>>
        loop == AliasLoop(aliases, TRUE, <<>>)
        n1 == IF loop.add_devnull
              THEN Append(loop.new_aliases, DEVNULL_LINE) ELSE loop.new_aliases
        n2 == IF Truthy(admin_email) THEN Append(n1, RootLine(admin_email)) ELSE n1
    IN  Concat(n2)

\* postfix-relay-operator/src/charm.py update_aliases: the alias file it leaves
relay_update_aliases(file, admin_email) ==
    relay_write_file(file, MergedAliases(file, admin_email), DEFAULT_PERMS, NoGroup)

\* postfix-relay-configurator-operator/src/charm.py _update_aliases
configurator_update_aliases(file, admin_email) ==
    configurator_write_file(file, MergedAliases(file, admin_email), DEFAULT_PERMS, NoGroup)

update_aliases(variant, file, admin_email) ==
    IF variant = "relay"
    THEN relay_update_aliases(file, admin_email)
    ELSE configurator_update_aliases(file, admin_email)

(***************************************************************************)
(* charm.py: constants.  A port is <<protocol, number>>.                   *)
(***************************************************************************)
POSTFIX_NAME == "postfix"
POSTFIX_PORT == <<"tcp", "25">>
ALIASES_FILEPATH == <<"/etc", "aliases">>
POLICYD_SPF_FILEPATH == <<"/etc/postfix-policyd-spf-python", "policyd-spf.conf">>
MAIN_CF == "main.cf"
MAIN_CF_TMPL == "postfix_main_cf.tmpl"
MASTER_CF == "master.cf"
MASTER_CF_TMPL == "postfix_master_cf.tmpl"
POLICYD_SPF_TMPL == "templates/policyd_spf_conf.tmpl"
DOVECOT_NAME == "dovecot"
DOVECOT_PORTS == << <<"tcp", "465">>, <<"tcp", "587">> >>
DOVECOT_CONFIG_FILEPATH == <<"/etc/dovecot", "dovecot.conf">>
DOVECOT_USERS_FILEPATH == <<"/etc/dovecot", "users">>

\* mutant: transport and virtual_alias are compiled first
Mutant_POSTFIX_MAP_FILES_transport_first ==
    << "hash:/etc/postfix/transport",
       "hash:/etc/postfix/virtual_alias",
       "hash:/etc/postfix/relay_recipient",
       "hash:/etc/postfix/restricted_recipients",
       "hash:/etc/postfix/restricted_senders",
       "hash:/etc/postfix/access",
       "hash:/etc/postfix/sender_login",
       "hash:/etc/postfix/tls_policy" >>

\* postfix.py POSTFIX_MAP_FILES
POSTFIX_MAP_FILES ==
    << "hash:/etc/postfix/relay_recipient",
       "hash:/etc/postfix/restricted_recipients",
       "hash:/etc/postfix/restricted_senders",
       "hash:/etc/postfix/access",
       "hash:/etc/postfix/sender_login",
       "hash:/etc/postfix/tls_policy",
       "hash:/etc/postfix/transport",
       "hash:/etc/postfix/virtual_alias" >>

\* the values of self.unit.status: <<name, message>>
UnknownStatus == <<"unknown", "">>
MaintenanceStatus(message) == <<"maintenance", message>>
BlockedStatus(message) == <<"blocked", message>>
WaitingStatus == <<"waiting", "">>
ActiveStatus == <<"active", "">>

(***************************************************************************)
(* Rendered files.  The templates and dovecot.py are not part of the       *)
(* sources at hand: a rendering is the template's name followed by one     *)
(* line per key of its context, so that it depends on every key.  Of the   *)
(* context of main.cf and master.cf the keys derived from the attributes   *)
(* of EmptyState are kept; fqdn, hostname, milter, the TLS paths and the   *)
(* attributes the model does not vary are left out.                        *)
(***************************************************************************)
\* str(b) of a bool
Bool(b) == IF b THEN "True" ELSE "False"

\* utils.py render_jinja2_template: context is a list of <<key, text>>
render_jinja2_template(context, template_path) ==
    <<template_path, "\n">>
    \o Concat([i \in DOMAIN context |->
                  <<context[i][1], " ", "=", " ">> \o context[i][2] \o <<"\n">>])

\* postfix-relay-operator/src/postfix.py construct_postfix_config_params
relay_construct_postfix_config_params(charm_state) ==
    << <<"JUJU_HEADER", JUJU_HEADER>>,
       <<"enable_smtp_auth", <<Bool(charm_state.enable_smtp_auth)>> >>,
       <<"enable_spf", <<Bool(charm_state.enable_spf)>> >>,
       <<"header_checks", <<Bool(charm_state.header_checks # <<>>)>> >>,
       <<"relay_recipient_maps", <<Bool(charm_state.relay_recipient_maps # <<>>)>> >>,
       <<"restrict_recipients", <<Bool(charm_state.restrict_recipients # <<>>)>> >>,
       <<"smtp_header_checks", <<Bool(charm_state.smtp_header_checks # <<>>)>> >>,
       <<"smtpd_recipient_restrictions",
         Join(<<", ">>, AsTexts(relay_smtpd_recipient_restrictions(charm_state)))>>,
       <<"smtpd_relay_restrictions",
         Join(<<", ">>, AsTexts(relay_smtpd_relay_restrictions(charm_state)))>>,
       <<"smtpd_sender_restrictions",
         Join(<<", ">>, AsTexts(relay_smtpd_sender_restrictions(charm_state)))>>,
       <<"transport_maps", <<Bool(charm_state.transport_maps # <<>>)>> >>,
       <<"virtual_alias_maps", <<Bool(charm_state.virtual_alias_maps # <<>>)>> >>,
       <<"virtual_alias_maps_type",
         <<PostfixLookupTableType_value(charm_state.virtual_alias_maps_type)>> >> >>

\* postfix.py construct_policyd_spf_config_file_content
construct_policyd_spf_config_file_content(spf_skip_addresses) ==
    render_jinja2_template(
        << <<"JUJU_HEADER", JUJU_HEADER>>,
           <<"skip_addresses", Join(<<",">>, AsTexts(spf_skip_addresses))>> >>,
        POLICYD_SPF_TMPL)

\* dovecot.py construct_dovecot_config_file_content
construct_dovecot_config_file_content(users_path, enable_smtp_auth) ==
    render_jinja2_template(
        << <<"JUJU_HEADER", JUJU_HEADER>>,
           <<"passdb_driver_path", <<users_path[1], "/", users_path[2]>> >>,
           <<"enable_smtp_auth", <<Bool(enable_smtp_auth)>> >> >>,
        "dovecot_conf.tmpl")

\* dovecot.py construct_dovecot_user_file_content
construct_dovecot_user_file_content(smtp_auth_users) ==
    render_jinja2_template(
        << <<"JUJU_HEADER", JUJU_HEADER>>,
           <<"smtp_auth_users", Join(<<"\n">>, AsTexts(smtp_auth_users))>> >>,
        "dovecot_users.tmpl")

(***************************************************************************)
(* charm.py: the event handlers.  A handler runs on a world w: the file    *)
(* system, ports, services and unit status it has reached, the log of the  *)
(* external effects it has performed, and whether an exception is          *)
(* propagating (raised).  Every external effect may fail: fail_at is the   *)
(* position, in the order of execution, of the effect that raises; 0 when  *)
(* none does.  A statement reached while an exception propagates does      *)
(* nothing.                                                                *)
(***************************************************************************)
\* an exception leaves the handler
Raise(w) == [w EXCEPT !.raised = TRUE]

\* self.unit.status = status
SetStatus(w, status) ==
    IF w.raised THEN w ELSE [w EXCEPT !.status = status]

\* one external effect: it raises, or it leaves the world `after` and is logged
Perform(w, entry, after) ==
    IF w.raised THEN w
    ELSE IF w.fail_at = Len(w.log) + 1 THEN Raise(w)
    ELSE [after EXCEPT !.log = Append(w.log, entry)]

\* mutant: the write is made even after an earlier step has failed
Mutant_utils_write_file_after_failure(w, variant, content, path, perms, group) ==
    IF /\ variant = "configurator"
       /\ w.files[path].exists
       /\ w.files[path].content = content
    THEN w
    ELSE IF w.raised
    THEN [w EXCEPT !.files[path] = write_file(variant, w.files[path], content, perms, group)]
    ELSE Perform(w, <<"write_file", path[1], path[2]>>,
                 [w EXCEPT !.files[path] =
                     write_file(variant, w.files[path], content, perms, group)])

\* utils.write_file(content, path, perms, group) called from the charm: the
\* configurator's returns before any effect when the content is on disk
utils_write_file(w, variant, content, path, perms, group) ==
    IF w.raised THEN w
    ELSE IF /\ variant = "configurator"
            /\ w.files[path].exists
            /\ w.files[path].content = content
         THEN w
         ELSE Perform(w, <<"write_file", path[1], path[2]>>,
                      [w EXCEPT !.files[path] =
                          write_file(variant, w.files[path], content, perms, group)])

\* self.unit.open_port(protocol, port)
open_port(w, port) ==
    Perform(w, <<"open_port", port[1], port[2]>>,
            IF w.raised THEN w ELSE [w EXCEPT !.ports = @ \cup {port}])

\* self.unit.close_port(protocol, port)
close_port(w, port) ==
    Perform(w, <<"close_port", port[1], port[2]>>,
            IF w.raised THEN w ELSE [w EXCEPT !.ports = @ \ {port}])

\* systemd.service_pause(name): the service is stopped and disabled
service_pause(w, name) ==
    Perform(w, <<"service_pause", name>>,
            IF w.raised THEN w ELSE [w EXCEPT !.running = @ \ {name}])

\* systemd.service_resume(name): the service is enabled and started
service_resume(w, name) ==
    Perform(w, <<"service_resume", name>>,
            IF w.raised THEN w ELSE [w EXCEPT !.running = @ \cup {name}])

\* systemd.service_reload(name)
service_reload(w, name) == Perform(w, <<"service_reload", name>>, w)

\* systemd.service_running(name)
service_running(w, name) == name \in w.running

\* subprocess.check_call(argv)
check_call(w, argv) == Perform(w, argv, w)

RECURSIVE close_ports(_, _)
\* for port in ports: self.unit.close_port(port.protocol, port.port)
close_ports(w, port_list) ==
    IF port_list = <<>> THEN w
    ELSE close_ports(close_port(w, Head(port_list)), Tail(port_list))

RECURSIVE open_ports(_, _)
\* for port in ports: self.unit.open_port(port.protocol, port.port)
open_ports(w, port_list) ==
    IF port_list = <<>> THEN w
    ELSE open_ports(open_port(w, Head(port_list)), Tail(port_list))

\* mutant: with SMTP authentication disabled the ports are closed but dovecot
\* is left as it is
Mutant_configure_auth_no_pause(w, charm_state) ==
    LET a0 == SetStatus(w, MaintenanceStatus("Setting up SMTP authentication (dovecot)"))
        a1 == utils_write_file(
                  a0, "relay",
                  construct_dovecot_config_file_content(DOVECOT_USERS_FILEPATH,
                                                        charm_state.enable_smtp_auth),
                  DOVECOT_CONFIG_FILEPATH, DEFAULT_PERMS, NoGroup)
        a2 == IF charm_state.smtp_auth_users # <<>>
              THEN utils_write_file(
                       a1, "relay",
                       construct_dovecot_user_file_content(charm_state.smtp_auth_users),
                       DOVECOT_USERS_FILEPATH, DOVECOT_USERS_PERMS, DOVECOT_NAME)
              ELSE a1
    IN  IF ~charm_state.enable_smtp_auth
        THEN close_ports(a2, DOVECOT_PORTS)
        ELSE LET a3 == open_ports(a2, DOVECOT_PORTS)
             IN  IF ~service_running(a3, DOVECOT_NAME)
                 THEN service_resume(a3, DOVECOT_NAME)
                 ELSE service_reload(a3, DOVECOT_NAME)

\* PostfixRelayCharm._configure_auth
PostfixRelayCharm__configure_auth(w, charm_state) ==
    LET a0 == SetStatus(w, MaintenanceStatus("Setting up SMTP authentication (dovecot)"))
        a1 == utils_write_file(
                  a0, "relay",
                  construct_dovecot_config_file_content(DOVECOT_USERS_FILEPATH,
                                                        charm_state.enable_smtp_auth),
                  DOVECOT_CONFIG_FILEPATH, DEFAULT_PERMS, NoGroup)
        a2 == IF charm_state.smtp_auth_users # <<>>
              THEN utils_write_file(
                       a1, "relay",
                       construct_dovecot_user_file_content(charm_state.smtp_auth_users),
                       DOVECOT_USERS_FILEPATH, DOVECOT_USERS_PERMS, DOVECOT_NAME)
              ELSE a1
    IN  IF ~charm_state.enable_smtp_auth
        THEN service_pause(close_ports(a2, DOVECOT_PORTS), DOVECOT_NAME)
        ELSE LET a3 == open_ports(a2, DOVECOT_PORTS)
             IN  IF ~service_running(a3, DOVECOT_NAME)
                 THEN service_resume(a3, DOVECOT_NAME)
                 ELSE service_reload(a3, DOVECOT_NAME)

RECURSIVE write_maps(_, _, _)
\* for postfix_map in postfix_maps: utils.write_file(postfix_map.content, postfix_map.path)
write_maps(w, variant, postfix_maps) ==
    IF postfix_maps = <<>> THEN w
    ELSE write_maps(utils_write_file(w, variant, Head(postfix_maps).content,
                                     Head(postfix_maps).path, DEFAULT_PERMS, NoGroup),
                    variant, Tail(postfix_maps))

RECURSIVE postmap_all(_, _)
\* for map_file in map_files: subprocess.check_call(["postmap", map_file])
postmap_all(w, map_files) ==
    IF map_files = <<>> THEN w
    ELSE postmap_all(check_call(w, <<"postmap", Head(map_files)>>), Tail(map_files))

\* mutant: postmap runs before the maps are written
Mutant_apply_postfix_maps_postmap_first(w, postfix_maps) ==
    write_maps(postmap_all(w, POSTFIX_MAP_FILES), "relay", postfix_maps)

\* PostfixRelayCharm._apply_postfix_maps
PostfixRelayCharm__apply_postfix_maps(w, postfix_maps) ==
    postmap_all(write_maps(w, "relay", postfix_maps), POSTFIX_MAP_FILES)

\* mutant: newaliases runs only when the alias file's content changes
Mutant_update_aliases_newaliases_on_change(w, admin_email) ==
    IF w.raised THEN w
    ELSE LET content == MergedAliases(w.files[ALIASES_FILEPATH], admin_email)
             w1 == utils_write_file(w, "relay", content, ALIASES_FILEPATH,
                                    DEFAULT_PERMS, NoGroup)
         IN  IF w.files[ALIASES_FILEPATH].exists
                /\ w.files[ALIASES_FILEPATH].content = content
             THEN w1
             ELSE check_call(w1, <<"newaliases">>)

\* PostfixRelayCharm.update_aliases
PostfixRelayCharm_update_aliases(w, admin_email) ==
    IF w.raised THEN w
    ELSE LET w1 == utils_write_file(
                       w, "relay",
                       MergedAliases(w.files[ALIASES_FILEPATH], admin_email),
                       ALIASES_FILEPATH, DEFAULT_PERMS, NoGroup)
         IN  check_call(w1, <<"newaliases">>)

\* mutant: the maps are written and compiled before main.cf and master.cf
Mutant_configure_relay_maps_first(w, charm_state) ==
    LET r0 == SetStatus(w, MaintenanceStatus("Setting up Postfix relay"))
        context == relay_construct_postfix_config_params(charm_state)
        r1 == PostfixRelayCharm__apply_postfix_maps(r0, relay_build_postfix_maps(charm_state))
        r2 == utils_write_file(r1, "relay", render_jinja2_template(context, MAIN_CF_TMPL),
                               <<POSTFIX_CONF_DIRPATH, MAIN_CF>>, DEFAULT_PERMS, NoGroup)
        r3 == utils_write_file(r2, "relay", render_jinja2_template(context, MASTER_CF_TMPL),
                               <<POSTFIX_CONF_DIRPATH, MASTER_CF>>, DEFAULT_PERMS, NoGroup)
        r4 == PostfixRelayCharm_update_aliases(r3, charm_state.admin_email)
        r5 == open_port(r4, POSTFIX_PORT)
    IN  IF ~service_running(r5, POSTFIX_NAME)
        THEN service_resume(r5, POSTFIX_NAME)
        ELSE service_reload(r5, POSTFIX_NAME)

\* mutant: postfix is reloaded without asking whether it runs
Mutant_configure_relay_always_reload(w, charm_state) ==
    LET r0 == SetStatus(w, MaintenanceStatus("Setting up Postfix relay"))
        context == relay_construct_postfix_config_params(charm_state)
        r1 == utils_write_file(r0, "relay", render_jinja2_template(context, MAIN_CF_TMPL),
                               <<POSTFIX_CONF_DIRPATH, MAIN_CF>>, DEFAULT_PERMS, NoGroup)
        r2 == utils_write_file(r1, "relay", render_jinja2_template(context, MASTER_CF_TMPL),
                               <<POSTFIX_CONF_DIRPATH, MASTER_CF>>, DEFAULT_PERMS, NoGroup)
        r3 == PostfixRelayCharm__apply_postfix_maps(r2, relay_build_postfix_maps(charm_state))
        r4 == PostfixRelayCharm_update_aliases(r3, charm_state.admin_email)
        r5 == open_port(r4, POSTFIX_PORT)
    IN  service_reload(r5, POSTFIX_NAME)

\* PostfixRelayCharm._configure_relay
PostfixRelayCharm__configure_relay(w, charm_state) ==
    LET r0 == SetStatus(w, MaintenanceStatus("Setting up Postfix relay"))
        context == relay_construct_postfix_config_params(charm_state)
        r1 == utils_write_file(r0, "relay", render_jinja2_template(context, MAIN_CF_TMPL),
                               <<POSTFIX_CONF_DIRPATH, MAIN_CF>>, DEFAULT_PERMS, NoGroup)
        r2 == utils_write_file(r1, "relay", render_jinja2_template(context, MASTER_CF_TMPL),
                               <<POSTFIX_CONF_DIRPATH, MASTER_CF>>, DEFAULT_PERMS, NoGroup)
        r3 == PostfixRelayCharm__apply_postfix_maps(r2, relay_build_postfix_maps(charm_state))
        r4 == PostfixRelayCharm_update_aliases(r3, charm_state.admin_email)
        r5 == open_port(r4, POSTFIX_PORT)
    IN  IF ~service_running(r5, POSTFIX_NAME)
        THEN service_resume(r5, POSTFIX_NAME)
        ELSE service_reload(r5, POSTFIX_NAME)

\* PostfixRelayCharm._configure_policyd_spf
PostfixRelayCharm__configure_policyd_spf(w, charm_state) ==
    LET p0 == SetStatus(w, MaintenanceStatus("Configuring Postfix policy server"))
    IN  IF ~charm_state.enable_spf
        THEN p0
        ELSE utils_write_file(
                 p0, "relay",
                 construct_policyd_spf_config_file_content(charm_state.spf_skip_addresses),
                 POLICYD_SPF_FILEPATH, DEFAULT_PERMS, NoGroup)

\* mutant: the handler configures dovecot before it looks at the validation
Mutant_reconcile_configures_first(w, input) ==
    LET w1 == SetStatus(w, MaintenanceStatus("Reconciling SMTP relay"))
        w2 == PostfixRelayCharm__configure_auth(w1, input.charm_state)
    IN  IF ~input.fetched THEN Raise(w1)
        ELSE IF ~input.valid THEN SetStatus(w2, BlockedStatus("Invalid config"))
        ELSE SetStatus(
                 PostfixRelayCharm__configure_policyd_spf(
                     PostfixRelayCharm__configure_relay(w2, input.charm_state),
                     input.charm_state),
                 ActiveStatus)

\* PostfixRelayCharm._reconcile.  input.fetched: the eight postfix.fetch_*
\* calls return (one raising ends the handler, it is no ConfigurationError);
\* input.valid: State.from_charm returns input.charm_state (it raises
\* ConfigurationError otherwise)
PostfixRelayCharm__reconcile(w, input) ==
    LET w1 == SetStatus(w, MaintenanceStatus("Reconciling SMTP relay"))
    IN  IF ~input.fetched THEN Raise(w1)
        ELSE IF ~input.valid THEN SetStatus(w1, BlockedStatus("Invalid config"))
        ELSE SetStatus(
                 PostfixRelayCharm__configure_policyd_spf(
                     PostfixRelayCharm__configure_relay(
                         PostfixRelayCharm__configure_auth(w1, input.charm_state),
                         input.charm_state),
                     input.charm_state),
                 ActiveStatus)

\* PostfixRelayCharm._on_install
PostfixRelayCharm__on_install(w) ==
    LET w1 == SetStatus(w, MaintenanceStatus("Installing packages"))
        w2 == Perform(w1, <<"apt.add_package">>, w1)
    IN  SetStatus(w2, WaitingStatus)

\* the attributes of the configurator's State (state.py, class State)
ConfiguratorStateFields ==
    { "enable_reject_unknown_sender_domain", "relay_access_sources", "relay_domains",
      "restrict_recipients", "restrict_senders", "relay_host", "relay_recipient_maps",
      "restrict_sender_access", "sender_login_maps", "transport_maps",
      "virtual_alias_domains", "virtual_alias_maps", "virtual_alias_maps_type" }

\* PostfixRelayConfiguratorCharm._configure_auth: its first read of the state
\* is of enable_smtp_auth; an attribute State does not have raises
\* AttributeError
PostfixRelayConfiguratorCharm__configure_auth(w, charm_state) ==
    LET a0 == SetStatus(w, MaintenanceStatus("Setting up authentication (dovecot)"))
    IN  IF "enable_smtp_auth" \notin DOMAIN charm_state
        THEN Raise(a0)
        ELSE LET a1 == utils_write_file(
                           a0, "configurator",
                           construct_dovecot_config_file_content(
                               DOVECOT_USERS_FILEPATH, charm_state.enable_smtp_auth),
                           DOVECOT_CONFIG_FILEPATH, DEFAULT_PERMS, NoGroup)
             IN  IF charm_state.smtp_auth_users # <<>>
                 THEN utils_write_file(
                          a1, "configurator",
                          construct_dovecot_user_file_content(charm_state.smtp_auth_users),
                          DOVECOT_USERS_FILEPATH, DOVECOT_USERS_PERMS, DOVECOT_NAME)
                 ELSE a1

\* PostfixRelayConfiguratorCharm._configure_relay: it reads charm_state.domain
\* and calls utils.render_jinja2_template, which the configurator's utils.py
\* does not define, before any effect: AttributeError in every case
PostfixRelayConfiguratorCharm__configure_relay(w, charm_state) ==
    Raise(SetStatus(w, MaintenanceStatus("Setting up Postfix relay")))

\* PostfixRelayConfiguratorCharm._configure_policyd_spf: the content is
\* rendered by utils.render_jinja2_template, which raises as above
PostfixRelayConfiguratorCharm__configure_policyd_spf(w, charm_state) ==
    LET p0 == SetStatus(w, MaintenanceStatus("Configuring Postfix policy server"))
    IN  IF "enable_spf" \notin DOMAIN charm_state THEN Raise(p0)
        ELSE IF ~charm_state.enable_spf THEN p0
        ELSE Raise(p0)

\* mutant: a validation failure ends the handler with the Active status
Mutant_reconcile_active_on_error(w, input) ==
    LET w1 == SetStatus(w, MaintenanceStatus("Reconciling config"))
    IN  IF ~input.fetched THEN Raise(w1)
        ELSE IF ~input.valid THEN SetStatus(w1, ActiveStatus)
        ELSE SetStatus(
                 PostfixRelayConfiguratorCharm__configure_policyd_spf(
                     PostfixRelayConfiguratorCharm__configure_relay(
                         PostfixRelayConfiguratorCharm__configure_auth(w1, input.charm_state),
                         input.charm_state),
                     input.charm_state),
                 ActiveStatus)

\* PostfixRelayConfiguratorCharm._reconcile.  input.fetched: State.from_charm
\* raises nothing but ConfigurationError (yaml.YAMLError and AttributeError
\* are not caught here); input.valid: it returns input.charm_state
PostfixRelayConfiguratorCharm__reconcile(w, input) ==
    LET w1 == SetStatus(w, MaintenanceStatus("Reconciling config"))
    IN  IF ~input.fetched THEN Raise(w1)
        ELSE IF ~input.valid THEN SetStatus(w1, BlockedStatus("Invalid config"))
        ELSE SetStatus(
                 PostfixRelayConfiguratorCharm__configure_policyd_spf(
                     PostfixRelayConfiguratorCharm__configure_relay(
                         PostfixRelayConfiguratorCharm__configure_auth(w1, input.charm_state),
                         input.charm_state),
                     input.charm_state),
                 ActiveStatus)

(***************************************************************************)
(* Inputs of the calls under study.                                        *)
(***************************************************************************)
MapKeys == {"a.com", "b.org"}
MapValues == {"x", "y"}
ListItems == {"unwanted.com", "a.io"}
StrDicts == Dicts(MapKeys, MapValues)
AccessDicts == Dicts(MapKeys, AccessMapValue)
Lists == SeqsUpTo(ListItems, MaxEntries)

SampleContents == { <<>>, <<"a", "\n">> }
SampleFiles ==
    {NoFile} \cup
    [exists : {TRUE}, content : SampleContents, mode : {DEFAULT_PERMS, DOVECOT_USERS_PERMS},
     owner : {"root", "postfix"}, group : {"root", "dovecot"}]

\* a state whose list and mapping fields are all non-empty
FilledState ==
    [ EmptyState EXCEPT
        !.additional_smtpd_recipient_restrictions = <<"a.io">>,
        !.header_checks = <<"a.io", "unwanted.com">>,
        !.smtp_header_checks = <<"unwanted.com">>,
        !.relay_access_sources = <<"a.io">>,
        !.restrict_sender_access = <<"a.io">>,
        !.relay_recipient_maps = << <<"b.org", "y">> >>,
        !.restrict_recipients = << <<"b.org", "REJECT">> >>,
        !.restrict_senders = << <<"a.com", "RESTRICTED">> >>,
        !.sender_login_maps = << <<"a.com", "y">> >>,
        !.tls_policy_maps = << <<"b.org", "x">>, <<"a.com", "x">> >>,
        !.transport_maps = << <<"a.com", "x">> >>,
        !.virtual_alias_maps = << <<"b.org", "x">> >> ]

ListFields == {"header_checks", "smtp_header_checks", "relay_access_sources",
               "restrict_sender_access"}
AccessFields == {"restrict_recipients", "restrict_senders"}
StrDictFields == {"relay_recipient_maps", "sender_login_maps", "tls_policy_maps",
                  "transport_maps", "virtual_alias_maps"}

FieldValues(field) ==
    IF field \in ListFields THEN Lists
    ELSE IF field \in AccessFields THEN AccessDicts
    ELSE StrDicts

MaxAliasLines == 3      \* most lines of an alias file drawn as an input

\* the lines an existing alias file is made of, without their line break:
\* "devnull:       /dev/null", "devnull: x", "root: o", "p: root", "# c"
AliasLineBodies ==
    { DEVNULL_PREFIX \o Spaces(7) \o DEV_NULL,
      DEVNULL_PREFIX \o <<" ", "x">>,
      ROOT_PREFIX \o <<" ", "o">>,
      <<"p", ":", " ", "r", "o", "o", "t">>,
      <<"#", " ", "c">> }

\* the alias files: none, or up to MaxAliasLines lines of which the last may
\* lack its line break
AliasFiles ==
    {NoFile} \cup
    { [exists |-> TRUE, content |-> text, mode |-> DEFAULT_PERMS,
       owner |-> "root", group |-> "root"] :
        text \in { Concat([i \in DOMAIN ls |-> ls[i] \o <<"\n">>]) \o final :
                     ls \in SeqsUpTo(AliasLineBodies, MaxAliasLines - 1),
                     final \in {<<>>} \cup AliasLineBodies
                              \cup { b \o <<"\n">> : b \in AliasLineBodies } } }

\* None, "", "a@b", and a value with a line break in it: "a\ndevnull: y"
AdminEmails ==
    { NoneValue, <<>>, <<"a", "@", "b">>,
      <<"a", "\n">> \o DEVNULL_PREFIX \o <<" ", "y">> }

(***************************************************************************)
(* postfix-relay-configurator-operator/src/state.py: the configuration     *)
(* parser.  A configuration text is a sequence of lines <<tag, a, b>>:     *)
(* <<"-", item, "">> is the line "- item", <<":", key, value>> the line    *)
(* "key: value", <<"s", text, "">> a plain scalar, and <<"[", "", "">> a   *)
(* flow sequence that is opened and never closed.  An option that is not   *)
(* set reads as None, the text NoConfig.  A Python value is                *)
(* [type, items]: a list holds <<item, "">>, a dict <<key, value>>.        *)
(***************************************************************************)
NoConfig == << <<"None", "", "">> >>

PyValue(type, items) == [type |-> type, items |-> items]

Returned(value) == [raised |-> "", value |-> value]
Raised(kind) == [raised |-> kind, value |-> PyValue("NoneType", <<>>)]

\* yaml.safe_load: a block sequence, a block mapping or one scalar; any other
\* text is no YAML document and raises yaml.YAMLError
yaml_safe_load(text) ==
    IF \A i \in DOMAIN text : text[i][1] = "-"
    THEN Returned(PyValue("list", [i \in DOMAIN text |-> <<text[i][2], "">>]))
    ELSE IF \A i \in DOMAIN text : text[i][1] = ":"
    THEN Returned(PyValue("dict", [i \in DOMAIN text |-> <<text[i][2], text[i][3]>>]))
    ELSE IF Len(text) = 1 /\ text[1][1] = "s"
    THEN Returned(PyValue("str", <<text[1][2], "">>))
    ELSE Raised("YAMLError")

\* "if raw_map" / "if raw_list": None and "" are falsy
RawTruthy(raw) == raw # NoConfig /\ raw # <<>>

\* state.py _parse_map
_parse_map(raw_map) ==
    IF RawTruthy(raw_map) THEN yaml_safe_load(raw_map) ELSE Returned(PyValue("dict", <<>>))

\* AccessMapValue(value): the member with that value, ValueError when none
AccessMapValue_of(value) ==
    CHOOSE member \in AccessMapValue : AccessMapValue_value(member) = value

\* state.py _parse_access_map: .items() of what _parse_map returned, then
\* AccessMapValue(value) for each value
_parse_access_map(raw_map) ==
    LET parsed_map == _parse_map(raw_map)
    IN  IF parsed_map.raised # "" THEN parsed_map
        ELSE IF parsed_map.value.type # "dict" THEN Raised("AttributeError")
        ELSE IF \E i \in DOMAIN parsed_map.value.items :
                    \A member \in AccessMapValue :
                        AccessMapValue_value(member) # parsed_map.value.items[i][2]
        THEN Raised("ValueError")
        ELSE Returned(PyValue("dict",
                 [i \in DOMAIN parsed_map.value.items |->
                     <<parsed_map.value.items[i][1],
                       AccessMapValue_of(parsed_map.value.items[i][2])>>]))

\* state.py _parse_list
_parse_list(raw_list) ==
    IF RawTruthy(raw_list) THEN yaml_safe_load(raw_list) ELSE Returned(PyValue("list", <<>>))

\* the statements of the try block of from_charm before cls(...), in order:
\* the option read and the parser applied to it
ParseSteps ==
    << <<"relay_access_sources", "list">>,
       <<"relay_domains", "list">>,
       <<"relay_recipient_maps", "map">>,
       <<"restrict_sender_access", "list">>,
       <<"virtual_alias_domains", "list">>,
       <<"restrict_recipients", "access_map">>,
       <<"restrict_senders", "access_map">>,
       <<"sender_login_maps", "map">>,
       <<"transport_maps", "map">>,
       <<"virtual_alias_maps", "map">> >>

ParseStep(config, step) ==
    CASE step[2] = "list" -> _parse_list(config[step[1]])
      [] step[2] = "map" -> _parse_map(config[step[1]])
      [] step[2] = "access_map" -> _parse_access_map(config[step[1]])

\* PostfixLookupTableType(config.get("virtual_alias_maps_type")): evaluated
\* as an argument of cls(...), hence before the model is validated
LookupTableTypeStep(config) ==
    IF \E member \in PostfixLookupTableType :
           PostfixLookupTableType_value(member) = config.virtual_alias_maps_type
    THEN Returned(PyValue("str",
             <<PostfixLookupTableType_of(config.virtual_alias_maps_type), "">>))
    ELSE Raised("ValueError")

\* the fields declared list[str] and those whose items have min_length=1
StrListFields ==
    {"relay_access_sources", "relay_domains", "restrict_sender_access",
     "virtual_alias_domains"}
MinLengthListFields == {"relay_domains", "restrict_sender_access", "virtual_alias_domains"}
\* the fields declared dict[str, str]
StrDictStateFields ==
    {"relay_recipient_maps", "sender_login_maps", "transport_maps", "virtual_alias_maps"}

\* pydantic's validation of cls(...): the fields whose value is not of the
\* declared type or length (the "loc" of the errors of the ValidationError)
ValidationErrorFields(config, parsed) ==
    { ParseSteps[i][1] : i \in
        { j \in DOMAIN ParseSteps :
            LET field == ParseSteps[j][1]
                value == parsed[j].value
            IN  \/ field \in StrListFields /\ value.type # "list"
                \/ /\ field \in MinLengthListFields
                   /\ value.type = "list"
                   /\ \E k \in DOMAIN value.items : value.items[k][1] = ""
                \/ field \in StrDictStateFields /\ value.type # "dict" } }
    \cup (IF config.relay_host = <<"">> THEN {"relay_host"} ELSE {})

\* the exceptions "except ValueError" catches: pydantic_core.ValidationError
\* is a subclass of ValueError, yaml.YAMLError and AttributeError are not
ValueErrorKinds == {"ValueError", "ValidationError"}

NoState == [none |-> TRUE]
NoFields == {}

\* ConfigurationError(msg): the message is the text before the field names
\* and the field names joined with " " in the order a set iterates
ConfigurationError(text, fields) ==
    [raised |-> "ConfigurationError", msg |-> [text |-> text, fields |-> fields],
     state |-> NoState]

\* an exception neither except clause catches
Uncaught(kind) ==
    [raised |-> kind, msg |-> [text |-> "", fields |-> NoFields], state |-> NoState]

\* a list of str as the State holds it
AsList(value) == [i \in DOMAIN value.items |-> value.items[i][1]]

\* state.py State.from_charm
State_from_charm(config) ==
    LET parsed == [i \in DOMAIN ParseSteps |-> ParseStep(config, ParseSteps[i])]
        failing == { i \in DOMAIN ParseSteps : parsed[i].raised # "" }
        type_ == LookupTableTypeStep(config)
        error_fields == ValidationErrorFields(config, parsed)
        exc == IF failing # {}
               THEN parsed[CHOOSE i \in failing : \A j \in failing : i <= j].raised
               ELSE IF type_.raised # "" THEN type_.raised
               ELSE IF error_fields # {} THEN "ValidationError"
               ELSE ""
        of(field) == parsed[CHOOSE i \in DOMAIN ParseSteps : ParseSteps[i][1] = field].value
    IN  IF exc = ""
        THEN [ raised |-> "",
               msg |-> [text |-> "", fields |-> NoFields],
               state |->
                 [ enable_reject_unknown_sender_domain |->
                       config.enable_reject_unknown_sender_domain,
                   relay_access_sources |-> AsList(of("relay_access_sources")),
                   relay_domains |-> AsList(of("relay_domains")),
                   relay_host |-> config.relay_host,
                   relay_recipient_maps |-> of("relay_recipient_maps").items,
                   restrict_recipients |-> of("restrict_recipients").items,
                   restrict_senders |-> of("restrict_senders").items,
                   restrict_sender_access |-> AsList(of("restrict_sender_access")),
                   sender_login_maps |-> of("sender_login_maps").items,
                   transport_maps |-> of("transport_maps").items,
                   virtual_alias_domains |-> AsList(of("virtual_alias_domains")),
                   virtual_alias_maps |-> of("virtual_alias_maps").items,
                   virtual_alias_maps_type |-> type_.value.items[1] ] ]
        ELSE IF exc \in ValueErrorKinds
        THEN ConfigurationError("Invalid configuration", NoFields)
        ELSE IF exc = "ValidationError"
        THEN ConfigurationError("Invalid configuration: ", error_fields)
        ELSE Uncaught(exc)

\* the texts drawn for the options
ListTexts ==
    { <<>>, << <<"-", "a.com", "">> >>, << <<"-", "", "">> >>,
      << <<":", "k", "v">> >>, << <<"[", "", "">> >> }
MapTexts ==
    { NoConfig, << <<":", "k", "v">> >>, << <<"-", "a.com", "">> >>, << <<"[", "", "">> >> }
AccessMapTexts ==
    { <<>>, << <<":", "a.com", "OK">> >>,
      << <<":", "a.com", "restricted">>, <<":", "b.org", "REJECT">> >>,
      << <<":", "recipient", "invalid_value">> >>,
      << <<"-", "a.com", "">> >>, << <<"s", "x", "">> >> }
SpfSkipTexts ==
    { <<>>, << <<"-", "10.0.114.0/24", "">> >>, << <<"-", "192.0.0.0/33", "">> >> }
LookupTableTypeTexts == {"hash", "regexp", "cidr", "invalid"}

\* the charm configuration: the options from_charm reads, and
\* spf_skip_addresses, which it does not read
DefaultConfig ==
    [ enable_reject_unknown_sender_domain |-> TRUE,
      relay_access_sources |-> <<>>,
      relay_domains |-> <<>>,
      relay_host |-> <<>>,
      relay_recipient_maps |-> <<>>,
      restrict_recipients |-> <<>>,
      restrict_senders |-> <<>>,
      restrict_sender_access |-> <<>>,
      sender_login_maps |-> <<>>,
      spf_skip_addresses |-> <<>>,
      transport_maps |-> <<>>,
      virtual_alias_domains |-> <<>>,
      virtual_alias_maps |-> <<>>,
      virtual_alias_maps_type |-> "hash" ]

(***************************************************************************)
(* Milter selection of the relay operator.  A unit name is "<app>/<n>";    *)
(* the units of the peer relation, and the remote units of one milter      *)
(* relation, belong to one application, so that their names differ in the  *)
(* decimal digits of n only: a unit is the sequence of these digits, and   *)
(* names are ordered as Python orders strings.                             *)
(***************************************************************************)
MILTER_PORT == <<"tcp", "8892">>

\* the place of a character among the decimal and hexadecimal digits
Digits == <<"0", "1", "2", "3", "4", "5", "6", "7", "8", "9",
            "a", "b", "c", "d", "e", "f">>
DigitValue(c) == (CHOOSE i \in DOMAIN Digits : Digits[i] = c) - 1

RECURSIVE StrLess(_, _)
\* a < b of two str
StrLess(a, b) ==
    IF a = <<>> THEN b # <<>>
    ELSE IF b = <<>> THEN FALSE
    ELSE IF a[1] # b[1] THEN DigitValue(a[1]) < DigitValue(b[1])
    ELSE StrLess(Tail(a), Tail(b))

RECURSIVE sorted(_)
\* sorted(units) / sorted(units, key=lambda u: u.name)
sorted(units) ==
    IF units = {} THEN <<>>
    ELSE LET least == CHOOSE u \in units : \A v \in units \ {u} : StrLess(u, v)
         IN  <<least>> \o sorted(units \ {least})

\* list.index(x)
index(list, x) == (CHOOSE i \in DOMAIN list : list[i] = x) - 1

\* hashlib.md5(seed.encode("utf-8")).hexdigest()[:2], for the application
\* names drawn
md5_hexdigest_2(seed) ==
    CASE seed = "postfix-relay" -> <<"3", "a">>
      [] seed = "smtp-relay" -> <<"2", "1">>

RECURSIVE int_16(_)
\* int(result, 16)
int_16(result) ==
    IF result = <<>> THEN 0
    ELSE 16 * int_16(SubSeq(result, 1, Len(result) - 1)) + DigitValue(result[Len(result)])

\* mutant: the offset is the first hex digit of the digest alone
Mutant__calculate_offset_one_digit(seed) == int_16(SubSeq(md5_hexdigest_2(seed), 1, 1))

\* PostfixRelayCharm._calculate_offset
_calculate_offset(seed) == int_16(md5_hexdigest_2(seed))

\* PostfixRelayCharm._get_peers; peer_units is empty when there is no peer
\* relation
_get_peers(unit, peer_units) == sorted({unit} \cup peer_units)

RECURSIVE milter_endpoints(_, _)
\* the loop of _get_milters over self.model.relations["milter"]
milter_endpoints(relations, offset) ==
    IF relations = <<>> THEN <<>>
    ELSE LET relation == Head(relations)
             rest == milter_endpoints(Tail(relations), offset)
         IN  IF relation.units = {} THEN rest
             ELSE LET remote_units == sorted(relation.units)
                      selected_unit == remote_units[(offset % Len(remote_units)) + 1]
                      address == relation.data[selected_unit].address
                      port == IF relation.data[selected_unit].port = <<>>
                              THEN MILTER_PORT[2]
                              ELSE relation.data[selected_unit].port[1]
                  IN  IF address # <<>>
                      THEN << <<"inet:" \o address[1] \o ":" \o port>> >> \o rest
                      ELSE rest

\* PostfixRelayCharm._get_milters
_get_milters(app_name, unit, peer_units, relations) ==
    LET peers == _get_peers(unit, peer_units)
        offset == index(peers, unit) + _calculate_offset(app_name)
    IN  Join(<<" ">>, milter_endpoints(relations, offset))

\* the inputs drawn: application names, this unit, its peers, milter relations
AppNames == {"postfix-relay", "smtp-relay"}
ThisUnits == {<<"0">>, <<"2">>}
PeerUnits == {<<"1">>, <<"1", "0">>}
RemoteUnits == {<<"0">>, <<"1", "0">>, <<"2">>}

RECURSIVE StrOf(_)
StrOf(chars) == IF chars = <<>> THEN "" ELSE Head(chars) \o StrOf(Tail(chars))

\* what a remote unit may publish: nothing, its address, or address and port
UnitData(unit) ==
    { [address |-> <<>>, port |-> <<>>],
      [address |-> <<"10.0.0." \o StrOf(unit)>>, port |-> <<>>],
      [address |-> <<"10.0.0." \o StrOf(unit)>>, port |-> <<"9999">>] }

MilterRelations ==
    UNION { { [units |-> units, data |-> data] :
                data \in { d \in [units -> UNION { UnitData(u) : u \in units }] :
                             \A u \in units : d[u] \in UnitData(u) } } :
            units \in SUBSET RemoteUnits }

\* the relations all of whose units publish an address and no port
PlainMilterRelations ==
    { relation \in MilterRelations :
        \A u \in relation.units :
            relation.data[u].address # <<>> /\ relation.data[u].port = <<>> }

MilterRelationLists ==
    {<<>>} \cup { <<relation>> : relation \in MilterRelations }
           \cup { <<relation, plain>> :
                    relation \in MilterRelations, plain \in PlainMilterRelations }

NoCall == [fn |-> "none"]
NoReturn == [nothing |-> TRUE]

(***************************************************************************)
(* The unit: one of the two charms, handling events one after the other.   *)
(***************************************************************************)
\* the files the handlers write
Paths ==
    { DOVECOT_CONFIG_FILEPATH, DOVECOT_USERS_FILEPATH, ALIASES_FILEPATH,
      POLICYD_SPF_FILEPATH,
      <<POSTFIX_CONF_DIRPATH, MAIN_CF>>, <<POSTFIX_CONF_DIRPATH, MASTER_CF>> }
    \cup { m.path : m \in Range(relay_build_postfix_maps(EmptyState)) }

\* a relay State with SMTP authentication, SPF and an admin email
AuthState ==
    [ EmptyState EXCEPT
        !.enable_smtp_auth = TRUE,
        !.enable_spf = TRUE,
        !.admin_email = <<"a", "@", "b">>,
        !.smtp_auth_users = <<"a.io">>,
        !.header_checks = <<"unwanted.com">>,
        !.tls_policy_maps = << <<"a.com", "x">> >>,
        !.spf_skip_addresses = <<"a.io">> ]

\* a relay State with SPF and dovecot users but no SMTP authentication
SpfState ==
    [ EmptyState EXCEPT
        !.enable_spf = TRUE,
        !.admin_email = <<>>,
        !.smtp_auth_users = <<"a.io", "unwanted.com">>,
        !.smtp_header_checks = <<"a.io">> ]

\* the states State.from_charm of the relay operator returns
RelayStates == {EmptyState, AuthState, SpfState}

\* a State of the configurator's state.py: its fields and no other
ConfiguratorState(base) ==
    [ field \in ConfiguratorStateFields |->
        IF field \in DOMAIN base THEN base[field] ELSE <<>> ]

\* what an event brings: whether the read-back of the lookup files returns,
\* whether the validation passes, and the State it returns
RelayInputs ==
    { [fetched |-> FALSE, valid |-> FALSE, config |-> EmptyState, charm_state |-> EmptyState],
      [fetched |-> TRUE, valid |-> FALSE, config |-> EmptyState, charm_state |-> EmptyState] }
    \cup { [fetched |-> TRUE, valid |-> TRUE, config |-> st, charm_state |-> st] :
             st \in RelayStates }

\* the charm configurations of the configurator drawn: the options as the
\* operator set them, of which State.from_charm keeps the fields of its State
ConfiguratorConfigs == {EmptyState, FilledState, AuthState}

ConfiguratorInputs ==
    { [fetched |-> FALSE, valid |-> FALSE, config |-> EmptyState,
       charm_state |-> ConfiguratorState(EmptyState)],
      [fetched |-> TRUE, valid |-> FALSE, config |-> EmptyState,
       charm_state |-> ConfiguratorState(EmptyState)] }
    \cup { [fetched |-> TRUE, valid |-> TRUE, config |-> config,
            charm_state |-> ConfiguratorState(config)] : config \in ConfiguratorConfigs }

\* the world a handler starts in
World(fail_at) ==
    [ files |-> files, ports |-> ports, running |-> running, status |-> unit_status,
      log |-> <<>>, fail_at |-> fail_at, raised |-> FALSE ]

\* some file's content is not what it was
ContentChanged(before, after) ==
    \E path \in DOMAIN before :
        \/ before[path].exists # after[path].exists
        \/ before[path].content # after[path].content

NoEvent ==
    [ event |-> "none", fetched |-> FALSE, valid |-> FALSE, raised |-> FALSE,
      log |-> <<>>, changed |-> FALSE, enable_smtp_auth |-> FALSE,
      enable_spf |-> FALSE, charm_state |-> EmptyState,
      successful_auth |-> "none", smtp_auth_users |-> <<>> ]

\* the unit after the handler has left the world w
Handled(event, input, w) ==
    /\ files' = w.files
    /\ ports' = w.ports
    /\ running' = w.running
    /\ unit_status' = w.status
    /\ last' = [ event |-> event, fetched |-> input.fetched, valid |-> input.valid,
                 raised |-> w.raised, log |-> w.log,
                 changed |-> ContentChanged(files, w.files),
                 enable_smtp_auth |-> input.valid /\ input.config.enable_smtp_auth,
                 enable_spf |-> input.valid /\ input.config.enable_spf,
                 charm_state |-> input.charm_state,
                 \* enable_smtp_auth of the last reconcile that ran to its end
                 successful_auth |->
                     IF event = "reconcile" /\ input.fetched /\ input.valid /\ ~w.raised
                     THEN Bool(input.config.enable_smtp_auth)
                     ELSE last.successful_auth,
                 \* the smtp_auth_users option of the configuration validated
                 smtp_auth_users |->
                     IF input.valid THEN input.config.smtp_auth_users ELSE <<>> ]
    /\ events' = events + 1
    /\ UNCHANGED <<charm, call, ret>>

\* the install event of the relay operator
RelayInstall ==
    /\ charm = "relay"
    /\ events < MaxEvents
    /\ \E fail_at \in 0..Len(PostfixRelayCharm__on_install(World(0)).log) :
        Handled("install", [fetched |-> FALSE, valid |-> FALSE, config |-> EmptyState,
                            charm_state |-> EmptyState],
                PostfixRelayCharm__on_install(World(fail_at)))

\* config_changed, peer relation_changed or milter relation_changed of the
\* relay operator
RelayReconcile ==
    /\ charm = "relay"
    /\ events < MaxEvents
    /\ \E input \in RelayInputs :
        \E fail_at \in 0..Len(PostfixRelayCharm__reconcile(World(0), input).log) :
            Handled("reconcile", input, PostfixRelayCharm__reconcile(World(fail_at), input))

\* config_changed of the configurator
ConfiguratorReconcile ==
    /\ charm = "configurator"
    /\ events < MaxEvents
    /\ \E input \in ConfiguratorInputs :
        \E fail_at \in 0..Len(PostfixRelayConfiguratorCharm__reconcile(World(0), input).log) :
            Handled("reconcile", input,
                    PostfixRelayConfiguratorCharm__reconcile(World(fail_at), input))

\* an alias file the operating system ships: "p: root\n"
StockAliases ==
    [exists |-> TRUE, content |-> <<"p", ":", " ", "r", "o", "o", "t", "\n">>,
     mode |-> DEFAULT_PERMS, owner |-> "root", group |-> "root"]

Init ==
    /\ call = NoCall
    /\ ret = NoReturn
    /\ charm \in Variants
    /\ \E aliases \in {NoFile, StockAliases} :
        files = [path \in Paths |-> IF path = ALIASES_FILEPATH THEN aliases ELSE NoFile]
    /\ ports = {}
    /\ running \in {{}, {POSTFIX_NAME, DOVECOT_NAME}}
    /\ unit_status = UnknownStatus
    /\ last = NoEvent
    /\ events = 0

Next ==
    \/ RelayInstall
    \/ RelayReconcile
    \/ ConfiguratorReconcile

Spec == Init /\ [][Next]_vars

(***************************************************************************)
(* The calls under study: each action is one call of one function on       *)
(* inputs drawn from the sets above.                                       *)
(***************************************************************************)
CallWriteFile ==
    /\ call.fn = "none"
    /\ UNCHANGED unit_vars
    /\ \E variant \in Variants, file \in SampleFiles, content \in SampleContents,
          perms \in {DEFAULT_PERMS, DOVECOT_USERS_PERMS}, group \in {NoGroup, "dovecot"} :
        /\ call' = [fn |-> "write_file", variant |-> variant, file |-> file,
                    content |-> content, perms |-> perms, group |-> group]
        /\ ret' = [file |-> write_file(variant, file, content, perms, group)]

CallRelayRestrictions ==
    /\ call.fn = "none"
    /\ UNCHANGED unit_vars
    /\ \E variant \in Variants, ras \in AccessDicts, auth \in BOOLEAN,
          slm \in StrDicts, rs \in AccessDicts :
        LET st == [EmptyState EXCEPT !.relay_access_sources = ras,
                                     !.enable_smtp_auth = auth,
                                     !.sender_login_maps = slm,
                                     !.restrict_senders = rs]
        IN  /\ call' = [fn |-> "smtpd_relay_restrictions", variant |-> variant,
                        charm_state |-> st]
            /\ ret' = [clauses |-> smtpd_relay_restrictions(variant, st)]

\* the relay-restriction builders of the two variants on the same state
CallRelayRestrictionsOfBoth ==
    /\ call.fn = "none"
    /\ UNCHANGED unit_vars
    /\ \E ras \in {<<>>, << <<"a.com", "OK">> >>}, auth \in BOOLEAN,
          slm \in {<<>>, << <<"a.com", "x">> >>},
          rs \in {<<>>, << <<"b.org", "REJECT">> >>} :
        LET st == [EmptyState EXCEPT !.relay_access_sources = ras,
                                     !.enable_smtp_auth = auth,
                                     !.sender_login_maps = slm,
                                     !.restrict_senders = rs]
        IN  /\ call' = [fn |-> "smtpd_relay_restrictions_of_both", charm_state |-> st]
            /\ ret' = [relay |-> smtpd_relay_restrictions("relay", st),
                       configurator |-> smtpd_relay_restrictions("configurator", st)]

CallSenderRestrictions ==
    /\ call.fn = "none"
    /\ UNCHANGED unit_vars
    /\ \E variant \in Variants, erusd \in BOOLEAN, rsa \in Lists :
        LET st == [EmptyState EXCEPT !.enable_reject_unknown_sender_domain = erusd,
                                     !.restrict_sender_access = rsa]
        IN  /\ call' = [fn |-> "smtpd_sender_restrictions", variant |-> variant,
                        charm_state |-> st]
            /\ ret' = [clauses |-> smtpd_sender_restrictions(variant, st)]

CallRecipientRestrictions ==
    /\ call.fn = "none"
    /\ UNCHANGED unit_vars
    /\ \E variant \in Variants, axet \in BOOLEAN, rs \in AccessDicts,
          extra \in Lists, spf \in BOOLEAN :
        LET st == [EmptyState EXCEPT !.append_x_envelope_to = axet,
                                     !.restrict_senders = rs,
                                     !.additional_smtpd_recipient_restrictions = extra,
                                     !.enable_spf = spf]
        IN  /\ call' = [fn |-> "smtpd_recipient_restrictions", variant |-> variant,
                        charm_state |-> st]
            /\ ret' = [clauses |-> smtpd_recipient_restrictions(variant, st)]

CallBuildPostfixMaps ==
    /\ call.fn = "none"
    /\ UNCHANGED unit_vars
    /\ \E variant \in Variants, base \in {EmptyState, FilledState},
          field \in ListFields \cup AccessFields \cup StrDictFields,
          type \in PostfixLookupTableType :
        \E value \in FieldValues(field) :
            LET st == [[base EXCEPT ![field] = value]
                          EXCEPT !.virtual_alias_maps_type = type]
            IN  /\ call' = [fn |-> "build_postfix_maps", variant |-> variant,
                            charm_state |-> st]
                /\ ret' = [maps |-> build_postfix_maps(variant, st)]

CallUpdateAliases ==
    /\ call.fn = "none"
    /\ UNCHANGED unit_vars
    /\ \E variant \in Variants, file \in AliasFiles, admin_email \in AdminEmails :
        /\ call' = [fn |-> "update_aliases", variant |-> variant, file |-> file,
                    admin_email |-> admin_email]
        /\ ret' = [file |-> update_aliases(variant, file, admin_email)]

\* update_aliases called twice in a row with the same admin email
CallUpdateAliasesTwice ==
    /\ call.fn = "none"
    /\ UNCHANGED unit_vars
    /\ \E variant \in Variants, file \in AliasFiles, admin_email \in AdminEmails :
        /\ call' = [fn |-> "update_aliases_twice", variant |-> variant, file |-> file,
                    admin_email |-> admin_email]
        /\ ret' = [once |-> update_aliases(variant, file, admin_email),
                   twice |-> update_aliases(variant,
                                            update_aliases(variant, file, admin_email),
                                            admin_email)]

\* State.from_charm called on a configuration
CallFromCharm ==
    /\ call.fn = "none"
    /\ UNCHANGED unit_vars
    /\ \E sources \in {<<>>, << <<"-", "a.com", "">> >>, << <<"[", "", "">> >>},
          domains \in ListTexts, transport \in MapTexts,
          recipients \in AccessMapTexts,
          senders \in {<<>>, << <<":", "sender", "invalid_value">> >>, << <<"[", "", "">> >>},
          host \in {<<>>, <<"">>},
          spf \in SpfSkipTexts, type \in LookupTableTypeTexts :
        LET config == [DefaultConfig EXCEPT
                          !.relay_access_sources = sources,
                          !.relay_domains = domains,
                          !.transport_maps = transport,
                          !.restrict_recipients = recipients,
                          !.restrict_senders = senders,
                          !.relay_host = host,
                          !.spf_skip_addresses = spf,
                          !.virtual_alias_maps_type = type]
        IN  /\ call' = [fn |-> "from_charm", config |-> config]
            /\ ret' = [result |-> State_from_charm(config)]

\* a map file the configurator's build_postfix_maps produces, read back by
\* the relay operator's _parse_map / _parse_access_map
CallReadBack ==
    /\ call.fn = "none"
    /\ UNCHANGED unit_vars
    /\ \/ \E m \in StrDicts :
            LET built == configurator_build_postfix_maps(
                             POSTFIX_CONF_DIRPATH, [EmptyState EXCEPT !.transport_maps = m])
                file == CHOOSE f \in Range(built) : f.name = "transport_maps"
            IN  /\ call' = [fn |-> "read_back", parser |-> "_parse_map", m |-> m,
                            content |-> file.content]
                /\ ret' = [parsed |-> relay__parse_map(file.content)]
       \/ \E m \in AccessDicts :
            LET built == configurator_build_postfix_maps(
                             POSTFIX_CONF_DIRPATH,
                             [EmptyState EXCEPT !.restrict_recipients = m])
                file == CHOOSE f \in Range(built) : f.name = "restrict_recipients"
            IN  /\ call' = [fn |-> "read_back", parser |-> "_parse_access_map", m |-> m,
                            content |-> file.content]
                /\ ret' = [parsed |-> relay__parse_access_map(file.content)]

\* _get_milters of one unit of the relay operator
CallGetMilters ==
    /\ call.fn = "none"
    /\ UNCHANGED unit_vars
    /\ \E app_name \in AppNames, unit \in ThisUnits, peer_units \in SUBSET PeerUnits,
          relations \in MilterRelationLists :
        /\ call' = [fn |-> "_get_milters", app_name |-> app_name, unit |-> unit,
                    peer_units |-> peer_units, relations |-> relations]
        /\ ret' = [milters |-> _get_milters(app_name, unit, peer_units, relations)]

\* fetch_<name> of the relay operator, beside the map of that name the
\* configurator's build_postfix_maps produces and the arguments of postmap
CallFetch ==
    /\ call.fn = "none"
    /\ UNCHANGED unit_vars
    /\ \E i \in DOMAIN FETCH_FILES, charm_state \in {EmptyState, FilledState} :
        LET name == FETCH_FILES[i][1]
            built == configurator_build_postfix_maps(POSTFIX_CONF_DIRPATH, charm_state)
            map == CHOOSE f \in Range(built) : f.name = name
        IN  /\ call' = [fn |-> "fetch", name |-> name, charm_state |-> charm_state]
            /\ ret' = [read |-> fetch_path(name), built |-> map,
                       compiled |-> Range(POSTFIX_MAP_FILES)]

\* no unit is running while the functions are called on their own
InitFn ==
    /\ call = NoCall
    /\ ret = NoReturn
    /\ charm = "relay"
    /\ files = [path \in Paths |-> NoFile]
    /\ ports = {}
    /\ running = {}
    /\ unit_status = UnknownStatus
    /\ last = NoEvent
    /\ events = 0

NextFn ==
    \/ CallWriteFile
    \/ CallRelayRestrictions
    \/ CallRelayRestrictionsOfBoth
    \/ CallGetMilters
    \/ CallFetch
    \/ CallSenderRestrictions
    \/ CallRecipientRestrictions
    \/ CallBuildPostfixMaps
    \/ CallUpdateAliases
    \/ CallUpdateAliasesTwice
    \/ CallFromCharm
    \/ CallReadBack

SpecFn == InitFn /\ [][NextFn]_vars

(***************************************************************************)
(*                              THE CLAIMS                                 *)
(***************************************************************************)
Opt(cond, clause) == IF cond THEN <<clause>> ELSE <<>>
NoDuplicates(list) == \A i, j \in DOMAIN list : i # j => list[i] # list[j]

\* C1 as stated: write_file, in both variants: when the destination file
\* exists and its content equals `content`, the call changes nothing
\* (content, mode, owner and group of the file are what they were).
C1_WriteFileIdempotent ==
    (call.fn = "write_file" /\ call.file.exists /\ call.file.content = call.content)
        => ret.file = call.file

\* C1 as amended: the configurator's write_file changes nothing when the
\* destination file exists with the same content; the relay operator's
\* write_file has no such check and leaves, after every call, the content
\* written, the mode `perms`, the process owner and the group `group` (the
\* owner's primary group when none is given).
C1_WriteFileIdempotentInConfigurator ==
    call.fn = "write_file" =>
        LET written == [exists |-> TRUE, content |-> call.content, mode |-> call.perms,
                        owner |-> "root",
                        group |-> IF call.group = "None" THEN "root" ELSE call.group]
        IN  IF call.variant = "configurator"
               /\ call.file.exists /\ call.file.content = call.content
            THEN ret.file = call.file
            ELSE ret.file = written

\* the configurator's write_file finds the content on disk under another
\* mode, owner and group than the call's, and leaves them
C1_Witness ==
    /\ call.fn = "write_file"
    /\ call.variant = "configurator"
    /\ call.file.exists
    /\ call.file.content = call.content
    /\ call.file.mode = DOVECOT_USERS_PERMS /\ call.perms = DEFAULT_PERMS
    /\ call.file.owner = "postfix"
    /\ call.file.group = "dovecot" /\ call.group = NoGroup
    /\ ret.file = call.file

\* the last event the unit handled was a reconcile
Reconciled == last.event = "reconcile"

\* the number of entries of the log for the effect op (on arg, unless arg is "")
Count(log, op, arg) ==
    Cardinality({ i \in DOMAIN log : log[i][1] = op /\ (arg = "" \/ log[i][2] = arg) })

Refreshes(log, name) ==
    Count(log, "service_reload", name) + Count(log, "service_resume", name)

\* C2: a reconcile in which State.from_charm raises ConfigurationError, in
\* either variant, sets the unit status to Blocked("Invalid config") and
\* performs no file write, no postmap or newaliases call, no port open or
\* close and no service pause, resume or reload: files, ports and services
\* are as they were before the event.
C2_ValidationFailureNoEffect ==
    [][ ( /\ events' = events + 1
          /\ last'.event = "reconcile"
          /\ last'.fetched
          /\ ~last'.valid )
        => ( /\ unit_status' = BlockedStatus("Invalid config")
             /\ last'.log = <<>>
             /\ ~last'.raised
             /\ files' = files
             /\ ports' = ports
             /\ running' = running ) ]_vars

\* a relay unit with files on disk, ports open and services running handles
\* an event with an invalid configuration
C2_Witness ==
    /\ Reconciled
    /\ charm = "relay"
    /\ last.fetched /\ ~last.valid
    /\ events = 2
    /\ files[DOVECOT_CONFIG_FILEPATH].exists
    /\ POSTFIX_PORT \in ports
    /\ POSTFIX_NAME \in running
    /\ unit_status = BlockedStatus("Invalid config")

\* C3 as stated: however a reconcile ends, the last status set is Active or
\* Blocked and never an in-progress Maintenance status: Blocked exactly if
\* the validation failed, Active exactly if it succeeded.
C3_TerminalStatusHoweverItEnds ==
    Reconciled =>
        /\ unit_status \in {ActiveStatus, BlockedStatus("Invalid config")}
        /\ unit_status = BlockedStatus("Invalid config") <=> (last.fetched /\ ~last.valid)
        /\ unit_status = ActiveStatus <=> (last.fetched /\ last.valid)

\* C3 as amended: a reconcile that returns normally leaves the status
\* Blocked("Invalid config") if the validation failed and Active if it
\* succeeded; a reconcile ended by a propagated failure leaves the in-progress
\* Maintenance status that was set last before the failure, and so does not
\* end Active or Blocked.
C3_TerminalStatusOnNormalReturn ==
    Reconciled =>
        /\ ~last.raised =>
              /\ last.fetched
              /\ ~last.valid => unit_status = BlockedStatus("Invalid config")
              /\ last.valid => unit_status = ActiveStatus
        /\ last.raised => unit_status[1] = "maintenance"

\* a relay reconcile with a valid configuration that the third postmap ends:
\* the status stays the Maintenance one of _configure_relay
C3_Witness ==
    /\ Reconciled
    /\ charm = "relay"
    /\ last.valid /\ last.raised
    /\ Count(last.log, "postmap", "") = 2
    /\ unit_status = MaintenanceStatus("Setting up Postfix relay")

C6_SenderRestrictions ==
    call.fn = "smtpd_sender_restrictions" =>
        LET st == call.charm_state IN
        /\ ret.clauses = Opt(st.enable_reject_unknown_sender_domain,
                     "reject_unknown_sender_domain")
                 \o <<"check_sender_access hash:/etc/postfix/access">>
                 \o Opt(Len(st.restrict_sender_access) > 0, "reject")
        /\ Len(ret.clauses) >= 1

C6_Witness ==
    /\ call.fn = "smtpd_sender_restrictions"
    /\ call.variant = "relay"
    /\ ret.clauses = << "reject_unknown_sender_domain",
                "check_sender_access hash:/etc/postfix/access",
                "reject" >>

MapCategories ==
    {"relay_access", "relay_recipient", "restricted_recipients", "restricted_senders",
     "access", "sender_login", "transport", "virtual_alias", "tls_policy",
     "header_checks", "smtp_header_checks", "append_envelope_to_header"}

\* the categories the relay operator generates itself
RelayMapCategories == {"header_checks", "smtp_header_checks", "tls_policy"}

FileNames(maps) == { maps[i].path[2] : i \in DOMAIN maps }

RECURSIVE RenderEntries(_, _)
\* the entries of m as "<key> <value>" lines joined by "\n"
RenderEntries(m, access) ==
    IF m = <<>> THEN <<>>
    ELSE LET value == IF access /\ m[1][2] = "RESTRICTED" THEN "restricted" ELSE m[1][2]
         IN  <<m[1][1], " ", value>>
             \o (IF Len(m) = 1 THEN <<>> ELSE <<"\n">> \o RenderEntries(Tail(m), access))

KeyValueCategories ==
    {"relay_recipient_maps", "restrict_recipients", "restrict_senders",
     "sender_login_maps", "tls_policy_maps", "transport_maps", "virtual_alias_maps"}

\* C9: the content of every key-to-value artifact is the banner, "\n", the
\* entries of the mapping as "<key> <value>" (an AccessMapValue by its
\* .value) joined by "\n" in insertion order, "\n"; every artifact starts
\* with the banner and ends with a newline.
C9_MapSerialization ==
    call.fn = "build_postfix_maps" =>
        \A i \in DOMAIN ret.maps :
            /\ StartsWith(ret.maps[i].content, JUJU_HEADER)
            /\ ret.maps[i].content[Len(ret.maps[i].content)] = "\n"
            /\ ret.maps[i].name \in KeyValueCategories =>
                   ret.maps[i].content =
                       JUJU_HEADER \o <<"\n">>
                       \o RenderEntries(call.charm_state[ret.maps[i].name],
                                        ret.maps[i].name \in AccessFields)
                       \o <<"\n">>

C9_Witness ==
    /\ call.fn = "build_postfix_maps"
    /\ call.variant = "configurator"
    /\ call.charm_state.transport_maps = << <<"b.org", "y">>, <<"a.com", "x">> >>
    /\ call.charm_state.restrict_senders = << <<"a.com", "RESTRICTED">> >>
    /\ \E i, j \in DOMAIN ret.maps :
        /\ ret.maps[i].name = "transport_maps"
        /\ ret.maps[i].content =
              JUJU_HEADER \o <<"\n", "b.org", " ", "y", "\n", "a.com", " ", "x", "\n">>
        /\ ret.maps[j].name = "restrict_senders"
        /\ ret.maps[j].content = JUJU_HEADER \o <<"\n", "a.com", " ", "restricted", "\n">>

RECURSIVE SkipSpaces(_)
SkipSpaces(text) ==
    IF text # <<>> /\ Head(text) = " " THEN SkipSpaces(Tail(text)) ELSE text

\* the line starts with "devnull:" and its target is /dev/null
MapsDevnullToDevNull(line) ==
    /\ StartsWith(line, DEVNULL_PREFIX)
    /\ SkipSpaces(SubSeq(line, Len(DEVNULL_PREFIX) + 1, Len(line)))
           \in {DEV_NULL, DEV_NULL \o <<"\n">>}

DevnullLines(text) ==
    { i \in DOMAIN readlines(text) : StartsWith(readlines(text)[i], DEVNULL_PREFIX) }

ExactlyOneDevnull(text) ==
    /\ Cardinality(DevnullLines(text)) = 1
    /\ \A i \in DevnullLines(text) : MapsDevnullToDevNull(readlines(text)[i])

NewlineTerminated(text) == text = <<>> \/ text[Len(text)] = "\n"
HasNoNewline(text) == \A i \in DOMAIN text : text[i] # "\n"

\* C10 as stated: after update_aliases returns, whatever the prior alias
\* file and the admin email, the file has exactly one line starting with
\* "devnull:" and that line maps devnull to /dev/null.
C10_ExactlyOneDevnullAlways ==
    call.fn = "update_aliases" => ExactlyOneDevnull(ret.file.content)

\* C10 as amended: the guarantee holds when the prior content is missing,
\* empty or ends with a line break, has no line starting with "devnull:" or
\* exactly one and that one maps to /dev/null, and the admin email has no
\* line break in it; update_aliases never removes or rewrites a devnull line
\* it finds.
C10_ExactlyOneDevnullOnCleanInput ==
    ( /\ call.fn = "update_aliases"
      /\ NewlineTerminated(call.file.content)
      /\ \/ DevnullLines(call.file.content) = {}
         \/ ExactlyOneDevnull(call.file.content)
      /\ HasNoNewline(call.admin_email) )
        => ExactlyOneDevnull(ret.file.content)

\* prior content "p: root\n" and admin email "a@b": the devnull line is added
C10_Witness ==
    /\ call.fn = "update_aliases"
    /\ call.file.exists
    /\ call.file.content = <<"p", ":", " ", "r", "o", "o", "t", "\n">>
    /\ call.admin_email = <<"a", "@", "b">>
    /\ ret.file.content = call.file.content \o DEVNULL_LINE \o RootLine(call.admin_email)
    /\ ExactlyOneDevnull(ret.file.content)

RootLines(text) ==
    { i \in DOMAIN readlines(text) : StartsWith(readlines(text)[i], ROOT_PREFIX) }

\* "root:          <admin_email>\n", as the claims write it
ClaimedRootLine(admin_email) ==
    <<"r", "o", "o", "t", ":">> \o Spaces(10) \o admin_email \o <<"\n">>

\* at most one root line: the claimed one, last, when the admin email is
\* non-empty, and none when it is None or empty
RootGuarantee(text, admin_email) ==
    IF Truthy(admin_email)
    THEN /\ RootLines(text) = {Len(readlines(text))}
         /\ readlines(text)[Len(readlines(text))] = ClaimedRootLine(admin_email)
    ELSE RootLines(text) = {}

C12_IdempotentAlways ==
    call.fn = "update_aliases_twice" => ret.twice.content = ret.once.content

\* C12 as amended: the second application changes nothing when the initial
\* content is missing, empty or ends with a line break and the admin email
\* has no line break in it.
C12_IdempotentOnCleanInput ==
    ( /\ call.fn = "update_aliases_twice"
      /\ NewlineTerminated(call.file.content)
      /\ HasNoNewline(call.admin_email) )
        => ret.twice = ret.once

\* prior content "root: o\n# c\n" and admin email "a@b": the first
\* application rewrites the file, the second leaves it as it is
C12_Witness ==
    /\ call.fn = "update_aliases_twice"
    /\ call.file.exists
    /\ call.file.content = ROOT_PREFIX \o <<" ", "o", "\n">> \o <<"#", " ", "c", "\n">>
    /\ call.admin_email = <<"a", "@", "b">>
    /\ ret.once.content # call.file.content
    /\ ret.twice = ret.once

KeptLines(text) ==
    SelectSeq(readlines(text), LAMBDA line : ~StartsWith(line, <<"r", "o", "o", "t", ":">>))

\* C13: the content update_aliases leaves is the existing lines that do not
\* start with "root:", unchanged and in their order, then
\* "devnull:       /dev/null\n" iff no existing line starts with "devnull:",
\* then "root:          <admin_email>\n" iff the admin email is non-empty; a
\* missing file counts as no lines and is created.
C13_MergeResult ==
    call.fn = "update_aliases" =>
        /\ ret.file.exists
        /\ ret.file.content =
              Concat(KeptLines(call.file.content))
              \o (IF DevnullLines(call.file.content) = {}
                  THEN <<"d", "e", "v", "n", "u", "l", "l", ":">> \o Spaces(7)
                       \o <<"/", "d", "e", "v", "/", "n", "u", "l", "l", "\n">>
                  ELSE <<>>)
              \o (IF call.admin_email # NoneValue /\ call.admin_email # <<>>
                  THEN ClaimedRootLine(call.admin_email) ELSE <<>>)

\* two comment lines, a root line between them and no devnull line: both
\* comments are kept in order, the devnull and root lines follow
C13_Witness ==
    /\ call.fn = "update_aliases"
    /\ call.file.exists
    /\ call.file.content = <<"#", " ", "c", "\n">> \o ROOT_PREFIX \o <<" ", "o", "\n">>
                           \o <<"#", " ", "c", "\n">>
    /\ call.admin_email = <<"a", "@", "b">>
    /\ ret.file.content = <<"#", " ", "c", "\n", "#", " ", "c", "\n">>
                          \o DEVNULL_LINE \o ClaimedRootLine(call.admin_email)

\* texts that decode to a list
IsListText(text) == \A i \in DOMAIN text : text[i][1] = "-"

\* some value of the access map is not one of OK / REJECT / restricted
InvalidAccessValue(text) ==
    \E i \in DOMAIN text : text[i][1] = ":" /\ text[i][3] \notin {"OK", "REJECT", "restricted"}

InvalidLookupTableType(value) == value \notin {"hash", "regexp", "cidr"}

\* C14 as stated: State.from_charm raises ConfigurationError and returns no
\* state whenever a value of restrict_recipients or restrict_senders is not
\* one of OK / REJECT / restricted, or virtual_alias_maps_type is not one of
\* hash / regexp / cidr, whatever the other fields are.
C14_EnumerationValidation ==
    ( /\ call.fn = "from_charm"
      /\ \/ InvalidAccessValue(call.config.restrict_recipients)
         \/ InvalidAccessValue(call.config.restrict_senders)
         \/ InvalidLookupTableType(call.config.virtual_alias_maps_type) )
        => /\ ret.result.raised = "ConfigurationError"
           /\ ret.result.state = NoState

\* the entries of spf_skip_addresses that are IP network literals
IPNetworkLiterals == {"10.0.114.0/24", "10.1.1.0/24"}

\* C15 as stated: State.from_charm raises ConfigurationError whenever some
\* entry of spf_skip_addresses is not a valid IP network literal, and
\* otherwise the State it returns exposes the entries in the given order.
C15_SpfSkipAddressValidation ==
    call.fn = "from_charm" =>
        LET entries == [i \in DOMAIN call.config.spf_skip_addresses |->
                           call.config.spf_skip_addresses[i][2]]
        IN  IF \E i \in DOMAIN entries : entries[i] \notin IPNetworkLiterals
            THEN ret.result.raised = "ConfigurationError"
            ELSE ret.result.raised = "" =>
                    /\ "spf_skip_addresses" \in DOMAIN ret.result.state
                    /\ ret.result.state["spf_skip_addresses"] = entries

\* C16 as stated: State.from_charm returns a State or raises
\* ConfigurationError; a text that cannot be decoded, or that decodes to
\* the wrong shape, makes it raise ConfigurationError and no other error.
C16_SingleErrorKind ==
    call.fn = "from_charm" => ret.result.raised \in {"", "ConfigurationError"}

\* the fields of the configuration that fail: by enumeration membership, by
\* type or by length
FailedFields(config) ==
    { f \in {"restrict_recipients", "restrict_senders"} : InvalidAccessValue(config[f]) }
    \cup { f \in {"virtual_alias_maps_type"} : InvalidLookupTableType(config[f]) }
    \cup { f \in {"relay_access_sources", "relay_domains"} :
             /\ config[f] # <<>>
             /\ \/ \A i \in DOMAIN config[f] : config[f][i][1] = ":"
                \/ \E i \in DOMAIN config[f] : config[f][i] = <<"-", "", "">> }
    \cup { f \in {"transport_maps"} : config[f] # <<>> /\ IsListText(config[f]) }
    \cup { f \in {"relay_host"} : config[f] = <<"">> }

\* C17 as stated: every ConfigurationError raised by State.from_charm
\* carries a message that contains the name of each field that failed, for
\* failures of enumeration membership as well as of type and length.
C17_DiagnosticNamesField ==
    ( call.fn = "from_charm" /\ ret.result.raised = "ConfigurationError" )
        => FailedFields(call.config) \subseteq ret.result.msg.fields

\* a reconcile that validated its configuration and returned normally
Successful == Reconciled /\ last.fetched /\ last.valid /\ ~last.raised

\* the positions of the log at which the file at path is written
Writes(log, path) == { i \in DOMAIN log : log[i] = <<"write_file", path[1], path[2]>> }

\* the paths of the map artifacts build_postfix_maps returns
MapPaths(variant) == { m.path : m \in Range(build_postfix_maps(variant, EmptyState)) }

MapWrites(log, variant) == UNION { Writes(log, path) : path \in MapPaths(variant) }
MainCfWrites(log) == Writes(log, <<POSTFIX_CONF_DIRPATH, MAIN_CF>>)
MasterCfWrites(log) == Writes(log, <<POSTFIX_CONF_DIRPATH, MASTER_CF>>)
AliasWrites(log) == Writes(log, ALIASES_FILEPATH)
SpfWrites(log) == Writes(log, POLICYD_SPF_FILEPATH)
AllWrites(log) == { i \in DOMAIN log : log[i][1] = "write_file" }

\* every position of the set before comes before every position of after
Before(before, after) == \A i \in before, j \in after : i < j

Postmaps(log) == { i \in DOMAIN log : log[i][1] = "postmap" }
Newaliases(log) == { i \in DOMAIN log : log[i][1] = "newaliases" }
PostfixRefreshes(log) ==
    { i \in DOMAIN log : log[i] \in {<<"service_resume", POSTFIX_NAME>>,
                                     <<"service_reload", POSTFIX_NAME>>} }

\* C19 as stated: in a successful reconcile of the relay operator no
\* postmap and no postfix resume or reload comes before a file write of that
\* reconcile: the maps, main.cf, master.cf, the alias file and, under
\* enable_spf, the SPF policy file.
C19_SignalsAfterAllWrites ==
    (Successful /\ charm = "relay") =>
        Before(AllWrites(last.log), Postmaps(last.log) \cup PostfixRefreshes(last.log))

\* C19 as amended: in a successful reconcile of the relay operator every
\* postmap comes after the writes of main.cf, master.cf and the map
\* artifacts and before the write of the alias file; the one postfix resume
\* or reload comes after the alias file is written and newaliases has run;
\* the SPF policy file is written iff enable_spf, as the last effect of the
\* reconcile, after the postfix resume or reload.
C19_SignalsWhereTheCodePutsThem ==
    (Successful /\ charm = "relay") =>
        /\ Postmaps(last.log) # {}
        /\ Before(MainCfWrites(last.log) \cup MasterCfWrites(last.log)
                      \cup MapWrites(last.log, "relay"),
                  Postmaps(last.log))
        /\ Before(Postmaps(last.log), AliasWrites(last.log))
        /\ Cardinality(PostfixRefreshes(last.log)) = 1
        /\ Before(AliasWrites(last.log) \cup Newaliases(last.log),
                  PostfixRefreshes(last.log))
        /\ (SpfWrites(last.log) # {}) <=> last.enable_spf
        /\ last.enable_spf =>
              /\ SpfWrites(last.log) = {Len(last.log)}
              /\ Before(PostfixRefreshes(last.log), SpfWrites(last.log))

\* a successful relay reconcile under enable_spf: postfix is reloaded and
\* the SPF policy file is written after it
C19_Witness ==
    /\ Successful
    /\ charm = "relay"
    /\ last.enable_spf
    /\ \E i \in PostfixRefreshes(last.log) :
           /\ last.log[i] = <<"service_reload", POSTFIX_NAME>>
           /\ \E j \in SpfWrites(last.log) : i < j
    /\ \E i \in Postmaps(last.log), j \in AliasWrites(last.log) : i < j

\* postmap's argument for a map artifact: "<type>:<directory>/<name>"
PostmapArgument(map) ==
    PostfixLookupTableType_value(map.type) \o ":" \o map.path[1] \o "/" \o map.path[2]

\* C20 as stated: in a successful reconcile of the relay operator postmap
\* is invoked exactly once for each map file written from
\* build_postfix_maps, with that map's type and path, and for no other file.
C20_PostmapMatchesGeneration ==
    (Successful /\ charm = "relay") =>
        LET generated == { PostmapArgument(m) :
                             m \in Range(relay_build_postfix_maps(EmptyState)) }
        IN  /\ \A arg \in generated : Count(last.log, "postmap", arg) = 1
            /\ \A i \in Postmaps(last.log) : last.log[i][2] \in generated

\* C21 as stated: the relay operator's read-back parser, applied to the file
\* content the map builder produces for a string-to-string mapping or an
\* access map m, returns exactly m; blank lines never cause an error.
C21_ReadBackRoundTrip ==
    call.fn = "read_back" =>
        /\ ret.parsed.raised = ""
        /\ ret.parsed.value = call.m

IsProperPrefix(short, long) ==
    /\ Len(short) < Len(long)
    /\ SubSeq(long, 1, Len(short)) = short

\* C23: a relay reconcile that validated its configuration and in which a
\* file write or an external command fails: the failure leaves the handler,
\* the effects are those of the same reconcile up to the failing step and no
\* later one (no further write, no reload, the status stays the in-progress
\* Maintenance status and never becomes Active), every file written before
\* the failure has its new content, and every file of a later step is as it
\* was before the event.
C23_NoRollback ==
    [][ ( /\ events' = events + 1
          /\ charm = "relay"
          /\ last'.event = "reconcile"
          /\ last'.fetched /\ last'.valid /\ last'.raised )
        => LET full == PostfixRelayCharm__reconcile(
                           World(0), [fetched |-> TRUE, valid |-> TRUE,
                                      charm_state |-> last'.charm_state])
               failed == full.log[Len(last'.log) + 1]
           IN  /\ IsProperPrefix(last'.log, full.log)
               /\ unit_status'[1] = "maintenance"
               /\ \A path \in DOMAIN files :
                    IF Writes(last'.log, path) # {}
                    THEN files'[path] = full.files[path]
                    ELSE failed # <<"write_file", path[1], path[2]>>
                            => files'[path] = files[path] ]_vars

\* the first relay reconcile of a unit without alias file fails at the third
\* postmap: main.cf, master.cf and the maps are written, the alias file is not
C23_Witness ==
    /\ Reconciled
    /\ charm = "relay"
    /\ events = 1
    /\ last.valid /\ last.raised
    /\ Count(last.log, "postmap", "") = 2
    /\ files[<<POSTFIX_CONF_DIRPATH, MAIN_CF>>].exists
    /\ files[<<POSTFIX_CONF_DIRPATH, "tls_policy">>].exists
    /\ ~files[ALIASES_FILEPATH].exists
    /\ unit_status = MaintenanceStatus("Setting up Postfix relay")

\* the reconcile of the variant on world w
ReconcileOf(variant, w, input) ==
    IF variant = "relay"
    THEN PostfixRelayCharm__reconcile(w, input)
    ELSE PostfixRelayConfiguratorCharm__reconcile(w, input)

\* the step is a reconcile with valid configuration in which no file write
\* and no external command failed
ValidReconcileStep ==
    /\ events' = events + 1
    /\ last'.event = "reconcile"
    /\ last'.fetched /\ last'.valid
    /\ LET full == ReconcileOf(charm, World(0),
                               [fetched |-> TRUE, valid |-> TRUE,
                                charm_state |-> last'.charm_state])
       IN  last'.log = full.log /\ files' = full.files

\* C24: in a reconcile with valid configuration, in both variants, the SPF
\* policy file is written iff enable_spf is true; when enable_spf is false
\* the file stays exactly as it was, and the reconcile ends with Active
\* status.
C24_SpfGating ==
    [][ ValidReconcileStep =>
          /\ last'.enable_spf => files'[POLICYD_SPF_FILEPATH].exists
          /\ last'.enable_spf /\ charm = "relay" => SpfWrites(last'.log) # {}
          /\ ~last'.enable_spf =>
                /\ SpfWrites(last'.log) = {}
                /\ files'[POLICYD_SPF_FILEPATH] = files[POLICYD_SPF_FILEPATH]
          /\ unit_status' = ActiveStatus ]_vars

\* the positions of the log holding the entry
Positions(log, entry) == { i \in DOMAIN log : log[i] = entry }

\* the step is a reconcile of the relay operator that ran to its end
SuccessfulRelayStep ==
    /\ events' = events + 1
    /\ charm = "relay"
    /\ last'.event = "reconcile"
    /\ last'.fetched /\ last'.valid /\ ~last'.raised

\* C25: in every successful reconcile of the relay operator port tcp/25 is
\* opened and after it exactly one of postfix resume and postfix reload is
\* issued: resume iff postfix was not running, reload iff it was, whether or
\* not the reconcile changed any file content.
C25_PostfixServiceStep ==
    [][ SuccessfulRelayStep =>
          LET opens == Positions(last'.log, <<"open_port", "tcp", "25">>)
              resumes == Positions(last'.log, <<"service_resume", POSTFIX_NAME>>)
              reloads == Positions(last'.log, <<"service_reload", POSTFIX_NAME>>)
          IN  /\ Cardinality(opens) = 1
              /\ <<"tcp", "25">> \in ports'
              /\ Cardinality(resumes \cup reloads) = 1
              /\ Before(opens, resumes \cup reloads)
              /\ resumes # {} <=> POSTFIX_NAME \notin running
              /\ reloads # {} <=> POSTFIX_NAME \in running
              /\ POSTFIX_NAME \in running' ]_vars

\* a second successful relay reconcile that changes no file content, on a
\* unit whose postfix the first one resumed: postfix is reloaded
C25_Witness ==
    /\ Successful
    /\ charm = "relay"
    /\ events = 2
    /\ ~last.changed
    /\ Count(last.log, "open_port", "tcp") = 1
    /\ Count(last.log, "service_reload", POSTFIX_NAME) = 1
    /\ Count(last.log, "service_resume", POSTFIX_NAME) = 0

DovecotPorts == Range(DOVECOT_PORTS)

\* what one successful relay reconcile does to the dovecot ports and service
DovecotStep ==
    LET closes(port) == Positions(last'.log, <<"close_port", port[1], port[2]>>)
        opens(port) == Positions(last'.log, <<"open_port", port[1], port[2]>>)
        pauses == Positions(last'.log, <<"service_pause", DOVECOT_NAME>>)
        resumes == Positions(last'.log, <<"service_resume", DOVECOT_NAME>>)
        reloads == Positions(last'.log, <<"service_reload", DOVECOT_NAME>>)
    IN  IF ~last'.enable_smtp_auth
        THEN /\ \A port \in DovecotPorts : closes(port) # {} /\ opens(port) = {}
             /\ pauses # {}
             /\ resumes = {} /\ reloads = {}
             /\ ports' \cap DovecotPorts = {}
             /\ DOVECOT_NAME \notin running'
        ELSE /\ \A port \in DovecotPorts : opens(port) # {} /\ closes(port) = {}
             /\ pauses = {}
             /\ Cardinality(resumes \cup reloads) = 1
             /\ resumes # {} <=> DOVECOT_NAME \notin running
             /\ reloads # {} <=> DOVECOT_NAME \in running
             /\ DovecotPorts \subseteq ports'
             /\ DOVECOT_NAME \in running'

\* C26 as stated, its last sentence: after any sequence of reconciles of the
\* relay operator of which one was successful, ports tcp/465 and tcp/587 are
\* open iff the last successful reconcile had enable_smtp_auth true.
C26_PortsFollowLastSuccessfulReconcile ==
    charm = "relay" /\ last.successful_auth # "none" =>
        /\ DovecotPorts \subseteq ports <=> last.successful_auth = "True"
        /\ ports \cap DovecotPorts = {} <=> last.successful_auth = "False"

\* C26: every successful reconcile of the relay operator with
\* enable_smtp_auth false closes tcp/465 and tcp/587, pauses dovecot and
\* neither resumes nor reloads it; with enable_smtp_auth true it opens both
\* ports, never pauses dovecot and issues exactly one of resume (iff dovecot
\* was not running) and reload (iff it was); right after a successful
\* reconcile the two ports are open iff it had enable_smtp_auth true.
C26_DovecotStep ==
    [][ SuccessfulRelayStep => DovecotStep ]_vars

\* a successful relay reconcile with enable_smtp_auth true on a unit whose
\* dovecot an earlier successful reconcile with enable_smtp_auth false paused
C26_Witness ==
    /\ Successful
    /\ charm = "relay"
    /\ events = 2
    /\ last.enable_smtp_auth
    /\ Count(last.log, "service_resume", DOVECOT_NAME) = 1
    /\ Count(last.log, "service_reload", DOVECOT_NAME) = 0
    /\ DovecotPorts \subseteq ports

\* the maps in the order the claim names them
CompilationOrder ==
    << "relay_recipient", "restricted_recipients", "restricted_senders", "access",
       "sender_login", "tls_policy", "transport", "virtual_alias" >>

\* C27: in every successful reconcile of the relay operator postmap is run
\* for hash:/etc/postfix/relay_recipient, restricted_recipients,
\* restricted_senders, access, sender_login, tls_policy, transport and
\* virtual_alias, in that order with nothing in between and no other postmap,
\* all after every map artifact of the reconcile is written; newaliases is
\* run once, after the last postmap and after the alias file is written.
C27_CompilationOrder ==
    Successful /\ charm = "relay" =>
        LET log == last.log
            first == CHOOSE i \in DOMAIN log : log[i][1] = "postmap" /\ \A j \in Postmaps(log) : i <= j
            final == first + Len(CompilationOrder) - 1
        IN  /\ Postmaps(log) = first..final
            /\ \A k \in DOMAIN CompilationOrder :
                 log[first + k - 1] = <<"postmap", "hash:/etc/postfix/" \o CompilationOrder[k]>>
            /\ MapWrites(log, "relay") # {}
            /\ Before(MapWrites(log, "relay"), Postmaps(log))
            /\ Cardinality(Newaliases(log)) = 1
            /\ Before(Postmaps(log), Newaliases(log))
            /\ AliasWrites(log) # {}
            /\ Before(AliasWrites(log), Newaliases(log))

\* a successful relay reconcile that wrote a TLS policy map with entries,
\* compiled the eight maps and ran newaliases
C27_Witness ==
    /\ Successful
    /\ charm = "relay"
    /\ last.charm_state.tls_policy_maps # <<>>
    /\ Cardinality(Postmaps(last.log)) = 8
    /\ Cardinality(Newaliases(last.log)) = 1
    /\ files[<<POSTFIX_CONF_DIRPATH, "tls_policy">>].exists

\* int(hashlib.md5(name).hexdigest()[:2], 16) of the application names drawn
ClaimedOffset(app_name) ==
    CASE app_name = "postfix-relay" -> 58
      [] app_name = "smtp-relay" -> 33

\* the number of units of the set whose name sorts before the unit's
PlaceAmong(units, unit) == Cardinality({ other \in units : StrLess(other, unit) })

\* the unit of the relation the claim selects for the call
ClaimedUnit(relation) ==
    CHOOSE unit \in relation.units :
        PlaceAmong(relation.units, unit) =
            (PlaceAmong({call.unit} \cup call.peer_units, call.unit)
             + ClaimedOffset(call.app_name)) % Cardinality(relation.units)

ClaimedContribution(relation) ==
    /\ relation.units # {}
    /\ relation.data[ClaimedUnit(relation)].address # <<>>

ClaimedEndpoint(relation) ==
    LET published == relation.data[ClaimedUnit(relation)]
    IN  "inet:" \o published.address[1] \o ":"
            \o (IF published.port = <<>> THEN "8892" ELSE published.port[1])

\* C28: _get_milters returns, in relation order and joined by single spaces,
\* one endpoint "inet:<address>:<port>" (port 8892 unless published) for each
\* milter relation that has units and whose unit at index (rank + offset) mod
\* n of its units sorted by name publishes an ingress-address, and nothing
\* for any other relation; rank is this unit's place among the sorted peer
\* names including its own, offset the value of the first two hex digits of
\* md5(application name).
C28_MilterSelection ==
    call.fn = "_get_milters" =>
        LET contributing == SelectSeq(call.relations, ClaimedContribution)
            n == Len(contributing)
        IN  /\ Len(ret.milters) = IF n = 0 THEN 0 ELSE 2 * n - 1
            /\ \A i \in 1..n : ret.milters[2 * i - 1] = ClaimedEndpoint(contributing[i])
            /\ \A i \in 1..(n - 1) : ret.milters[2 * i] = " "

\* unit 2 of postfix-relay with peer 10 (rank 1, offset 58): of the first
\* relation's units 0, 10 and 2 the selected one, 2, publishes nothing while
\* the others publish addresses; of the second relation's units 0 and 10 the
\* selected one is 10
C28_Witness ==
    /\ call.fn = "_get_milters"
    /\ call.app_name = "postfix-relay"
    /\ call.unit = <<"2">>
    /\ call.peer_units = {<<"1", "0">>}
    /\ Len(call.relations) = 2
    /\ call.relations[1].units = RemoteUnits
    /\ call.relations[1].data[<<"2">>].address = <<>>
    /\ call.relations[1].data[<<"0">>].address # <<>>
    /\ call.relations[1].data[<<"1", "0">>].address # <<>>
    /\ call.relations[2].units = {<<"0">>, <<"1", "0">>}
    /\ ret.milters = <<"inet:10.0.0.10:8892">>

\* C29: in a reconcile with valid configuration, in both variants: with
\* empty smtp_auth_users the Dovecot users file is not written and its
\* content, mode and group stay as they were; with non-empty smtp_auth_users
\* the file holds the users with mode 0o640 and group dovecot, written (in
\* the relay operator, which writes unconditionally) after the Dovecot
\* config file.
C29_UsersFileOnlyWritten ==
    [][ ValidReconcileStep =>
          LET users == Writes(last'.log, DOVECOT_USERS_FILEPATH)
              config == Writes(last'.log, DOVECOT_CONFIG_FILEPATH)
          IN  IF last'.smtp_auth_users = <<>>
              THEN /\ users = {}
                   /\ files'[DOVECOT_USERS_FILEPATH] = files[DOVECOT_USERS_FILEPATH]
              ELSE /\ files'[DOVECOT_USERS_FILEPATH].exists
                   /\ files'[DOVECOT_USERS_FILEPATH].content =
                        construct_dovecot_user_file_content(last'.smtp_auth_users)
                   /\ files'[DOVECOT_USERS_FILEPATH].mode = 416
                   /\ files'[DOVECOT_USERS_FILEPATH].group = "dovecot"
                   /\ charm = "relay" =>
                        /\ Cardinality(users) = 1
                        /\ config # {}
                        /\ Before(config, users) ]_vars

\* C30: for every read-back category the file the relay operator's fetch_*
\* function reads is the path the configurator's build_postfix_maps writes
\* for that category, and, for the hash categories, the path the relay
\* operator passes to postmap.
C30_PathAgreement ==
    call.fn = "fetch" =>
        /\ ret.read = ret.built.path
        /\ ret.built.type = "HASH" =>
             ("hash:" \o ret.read[1] \o "/" \o ret.read[2]) \in ret.compiled

====
